---- MODULE Spec2Model ----
(***************************************************************************)
(* Model of the LCP performance tracer (Azumaxoid/nr-browser-resource-     *)
(* tracer): the LCPMonitor state machine (src/src/LCPMonitor.ts) driven by *)
(* the browser's performance timeline, and the ResourceCollector's         *)
(* critical-resource selection (src/src/ResourceCollector.ts).             *)
(*                                                                         *)
(* Strings are modelled as sequences of tokens (the empty string is <<>>), *)
(* so that String.prototype.includes is a computation on the model.        *)
(* Object references into an array are modelled as indices of that array.  *)
(* LCPEntry.timestamp (Date.now()) is read by no operation of the monitor  *)
(* and is left out of the modelled LCPEntry.                               *)
(***************************************************************************)
EXTENDS Integers, Sequences, FiniteSets, TLC

\* ------------------------------------------------------------------ bounds
MaxTime == 3        \* startTime / renderTime of an LCP entry range over 0..MaxTime
Threshold == 1      \* the threshold the monitor is constructed with
MaxEvents == 3      \* LCP entries emitted plus effective start() calls in one run
MaxBuffer == 3      \* records in the resource-timing buffer
MaxDuration == 1    \* a resource's duration ranges over 0..MaxDuration
MaxMaxResources == 3 \* the collector's maxResources ranges over 1..MaxMaxResources
RateScale == 2      \* sampling rates and draws are multiples of 1/RateScale
MaxRandom == 1      \* Math.random() returns one of 0..MaxRandom

\* ---------------------------------------------------- program constants
DefaultMaxResources == 10   \* constructor(maxResources: number = 10)

\* ---------------------------------------------------------------- values
Null == [null |-> TRUE]

HeroUrl == <<"https://cdn.example/hero", ".png">>
MainCssUrl == <<"https://cdn.example/main", ".css">>

\* A DOM element as the code reads it: tagName, the src attribute, the computed
\* background-image (a record: kind "none" | "empty" | "url" | "gradient"), and
\* whether window.getComputedStyle throws for it.
ImgElement(src) ==
  [tagName |-> "IMG", src |-> src, backgroundImage |-> [kind |-> "none"], styleThrows |-> FALSE]

HeroImg == ImgElement(HeroUrl)

VideoElement(src) ==
  [tagName |-> "VIDEO", src |-> src, backgroundImage |-> [kind |-> "none"], styleThrows |-> FALSE]

\* A DIV whose computed background-image is bg.
DivElement(bg) ==
  [tagName |-> "DIV", src |-> <<>>, backgroundImage |-> bg, styleThrows |-> FALSE]

\* A DIV for which window.getComputedStyle throws.
DetachedDiv ==
  [tagName |-> "DIV", src |-> <<>>, backgroundImage |-> [kind |-> "none"], styleThrows |-> TRUE]

BgUrl(url, quote) == [kind |-> "url", quote |-> quote, url |-> url]

\* The lcpElement arguments collectCriticalResources is applied to.
LCPElements ==
  { Null, HeroImg, ImgElement(MainCssUrl), VideoElement(<<>>),
    DivElement(BgUrl(HeroUrl, "\"")), DivElement([kind |-> "none"]), DetachedDiv }

\* PerformanceResourceTiming entries of the buffer (startTime and the byte sizes
\* are copied through unread and are left out).
ResourceEntries ==
  { [name |-> n, duration |-> d, initiatorType |-> t] :
      n \in {HeroUrl, MainCssUrl}, d \in 0..MaxDuration, t \in {"link", "img"} }

RECURSIVE SeqsUpTo(_, _)
SeqsUpTo(S, n) ==
  IF n = 0 THEN { <<>> }
  ELSE LET shorter == SeqsUpTo(S, n - 1)
       IN shorter \cup { Append(q, x) : q \in { r \in shorter : Len(r) = n - 1 }, x \in S }

\* PerformanceLargestContentfulPaint entries the platform can emit. renderTime is
\* absent (0) or MaxTime. An entry without renderTime is an image whose render
\* time the browser withholds (element and url present); an entry with renderTime
\* is a text block whose node has left the document (no element, no url).
RenderTimes == {0, MaxTime}

PerfLCPEntries ==
  { [startTime |-> s, renderTime |-> r,
     element |-> IF r = 0 THEN HeroImg ELSE Null,
     url |-> IF r = 0 THEN HeroUrl ELSE <<>>] :
      s \in 0..MaxTime, r \in RenderTimes }

\* What the user's onLCPDetected callback does when invoked: nothing to the
\* monitor, or it calls monitor.stop().
CallbackBehaviours == {"none", "stop"}

\* new PerformanceObserver(...) / observer.observe(...) may throw.
ObserverFailures == {"no", "constructor", "observe"}

VARIABLES
  \* LCPMonitor fields (LCPMonitor.ts:4-10)
  threshold, isObserving, hasTriggered, currentLCP, observer, fallbackCheckInterval,
  \* the platform: capability, the buffered LCP entries, the connected observer and
  \* its record queue, active interval timers, 'load' listeners, pending settle
  \* timeouts (each named by the session whose closure it is), load fired
  supportsPO, lcpBuffer, connected, observerQueue, intervals, loadListeners,
  settleTimers, loadFired,
  \* history: session ordinal, callback invocations, first candidate above the
  \* threshold delivered in the session, the last delivered platform entry, the
  \* last public call ("pollFailed" after an interval poll whose read threw)
  session, fired, firstExceeding, lastDelivered, lastCall,
  \* ResourceCollector: its maxResources field, the platform's resource-timing
  \* buffer and the state of the Performance API ("ok" | "missing" | "throws"),
  \* the argument and result of the last collectCriticalResources call (the result
  \* as references into the array collectResourceTiming built)
  maxResources, resources, perfApi, lcpElementArg, result, collected,
  \* the platform's navigation timing (performance.timing, Null when it is
  \* missing) and its buffer of paint entries
  timing, paintEntries,
  \* what the last collectNavigationTiming call returned (Null before any)
  snapshot,
  \* ConfigManager: the constructor's argument, the config field it built (Null
  \* while there is none) and what construction did ("none" before it ran,
  \* "ConfigManager" | "LCPPerformanceTracer" for the object built, "threw")
  rawConfig, config, constructed,
  \* the console.warn calls the ConfigManager's validators made, in order
  configWarnings,
  \* NewRelicReporter and the sink: the state of window.newrelic ("available" |
  \* "absent" | "notFunction"), the calls made to newrelic.recordCustomEvent so
  \* far (each with the ordinal of the sendTrace call that made it and whether
  \* the sink threw), the argument of the last sendTrace call (Null before it),
  \* and the promise the last sendTrace call returned ("none" before the call,
  \* then "resolved" | "rejected")
  newrelic, sinkCalls, traceData, sendTracePromise,
  \* LCPPerformanceTracer: its isRunning field, its lcpMonitor field (0 for null,
  \* else the monitor, named by the session it runs), the monitors it dropped
  \* that a pending 'load' listener or settle timeout still refers to (their
  \* fields, by name); history: the handleLCPDetected invocations, and the last
  \* start() call's gating (Null before the first)
  isRunning, lcpMonitor, detached, handled, gate

monitorFields ==
  <<threshold, isObserving, hasTriggered, currentLCP, observer, fallbackCheckInterval>>

platformVars ==
  <<supportsPO, lcpBuffer, connected, observerQueue, intervals, loadListeners,
    settleTimers, loadFired>>

historyVars == <<session, fired, firstExceeding, lastDelivered, lastCall>>

collectorVars ==
  <<maxResources, resources, perfApi, lcpElementArg, result, collected, timing, paintEntries,
    snapshot>>

configVars == <<rawConfig, config, constructed, configWarnings>>

\* Everything outside the monitor and the collector.
reporterVars == <<newrelic, sinkCalls, traceData, sendTracePromise>>

tracerVars == <<isRunning, lcpMonitor, detached, handled, gate>>

appVars == <<configVars, reporterVars, tracerVars>>

vars == <<monitorFields, platformVars, historyVars, collectorVars, appVars>>

\* ------------------------------------------------------------ LCPMonitor
\* The part of the state the monitor's methods read and write, as one record.
World ==
  [isObserving |-> isObserving, hasTriggered |-> hasTriggered, currentLCP |-> currentLCP,
   observer |-> observer, fallbackCheckInterval |-> fallbackCheckInterval,
   connected |-> connected, observerQueue |-> observerQueue, intervals |-> intervals,
   loadListeners |-> loadListeners,
   session |-> session, fired |-> fired, firstExceeding |-> firstExceeding,
   lastDelivered |-> lastDelivered]

SetWorld(w) ==
  /\ isObserving' = w.isObserving
  /\ hasTriggered' = w.hasTriggered
  /\ currentLCP' = w.currentLCP
  /\ observer' = w.observer
  /\ fallbackCheckInterval' = w.fallbackCheckInterval
  /\ connected' = w.connected
  /\ observerQueue' = w.observerQueue
  /\ intervals' = w.intervals
  /\ loadListeners' = w.loadListeners
  /\ session' = w.session
  /\ fired' = w.fired
  /\ firstExceeding' = w.firstExceeding
  /\ lastDelivered' = w.lastDelivered

\* entry.startTime || entry.renderTime || 0
LCPValue(entry) ==
  IF entry.startTime # 0 THEN entry.startTime
  ELSE IF entry.renderTime # 0 THEN entry.renderTime
  ELSE 0

\* { value, element: entry.element || null, url: entry.url || '' }
ToLCPEntry(entry) ==
  [value |-> LCPValue(entry), element |-> entry.element, url |-> entry.url]

\* stop()
StopOp(w) ==
  IF ~w.isObserving THEN w
  ELSE LET w1 == [w EXCEPT !.isObserving = FALSE]
           w2 == IF w1.observer # 0
                 THEN [w1 EXCEPT !.connected = @ \ {w1.observer},
                                 !.observerQueue = <<>>,
                                 !.observer = 0]
                 ELSE w1
       IN IF w2.fallbackCheckInterval # 0
          THEN [w2 EXCEPT !.intervals = @ \ {w2.fallbackCheckInterval},
                          !.fallbackCheckInterval = 0]
          ELSE w2

\* this.onLCPDetected(lcpEntry): the invocation is recorded (with whether the
\* monitor was observing when it was made), then the callback body runs (it may
\* call stop()).
OnLCPDetected(w, lcpEntry, cb) ==
  LET w1 == [w EXCEPT !.fired = Append(@, [session |-> w.session, entry |-> lcpEntry,
                                           observing |-> w.isObserving])]
  IN IF cb = "stop" THEN StopOp(w1) ELSE w1

\* Mutant: the once-only guard (!this.hasTriggered) is dropped.
HandleLCPEntry_NoOnceGuard(w, entry, cb) ==
  LET lcpValue == LCPValue(entry)
      lcpEntry == ToLCPEntry(entry)
      w1 == [w EXCEPT !.currentLCP = lcpEntry]
  IN IF lcpValue > threshold
     THEN OnLCPDetected([w1 EXCEPT !.hasTriggered = TRUE], lcpEntry, cb)
     ELSE w1

\* Mutant: the comparison is >= instead of >.
HandleLCPEntry_NonStrict(w, entry, cb) ==
  LET lcpValue == LCPValue(entry)
      lcpEntry == ToLCPEntry(entry)
      w1 == [w EXCEPT !.currentLCP = lcpEntry]
  IN IF lcpValue >= threshold /\ ~w1.hasTriggered
     THEN OnLCPDetected([w1 EXCEPT !.hasTriggered = TRUE], lcpEntry, cb)
     ELSE w1

\* Mutant: currentLCP keeps the largest value seen (max-wins).
HandleLCPEntry_MaxWins(w, entry, cb) ==
  LET lcpValue == LCPValue(entry)
      lcpEntry == ToLCPEntry(entry)
      w1 == IF w.currentLCP = Null \/ lcpValue > w.currentLCP.value
            THEN [w EXCEPT !.currentLCP = lcpEntry] ELSE w
  IN IF lcpValue > threshold /\ ~w1.hasTriggered
     THEN OnLCPDetected([w1 EXCEPT !.hasTriggered = TRUE], lcpEntry, cb)
     ELSE w1

\* handleLCPEntry(entry)
HandleLCPEntry(w, entry, cb) ==
  LET lcpValue == LCPValue(entry)
      lcpEntry == ToLCPEntry(entry)
      w1 == [w EXCEPT !.currentLCP = lcpEntry]
  IN IF lcpValue > threshold /\ ~w1.hasTriggered
     THEN OnLCPDetected([w1 EXCEPT !.hasTriggered = TRUE], lcpEntry, cb)
     ELSE w1

\* History of a delivery: the platform entry about to be handed to handleLCPEntry,
\* and the first one of the session whose value exceeds the threshold.
RecordDelivery(w, entry) ==
  [w EXCEPT !.lastDelivered = entry,
            !.firstExceeding = IF w.isObserving /\ @ = Null /\ LCPValue(entry) > threshold
                               THEN entry ELSE @]

\* Mutant: the observer callback handles only the newest entry of a batch (as the
\* fallback poll does), the others being delivered but skipped.
RECURSIVE RecordDeliveries(_, _)
RecordDeliveries(w, entries) ==
  IF entries = <<>> THEN w
  ELSE RecordDeliveries(RecordDelivery(w, Head(entries)), Tail(entries))

ObserverCallback_LastOnly(w, entries, cb) ==
  IF entries = <<>> THEN w
  ELSE HandleLCPEntry(RecordDeliveries(w, entries), entries[Len(entries)], cb)

\* The PerformanceObserver callback: for (const entry of entries) handleLCPEntry.
\* The observer is subscribed to the single type 'largest-contentful-paint', so
\* every entry passes the entryType test.
RECURSIVE ObserverCallback(_, _, _)
ObserverCallback(w, entries, cb) ==
  IF entries = <<>> THEN w
  ELSE ObserverCallback(HandleLCPEntry(RecordDelivery(w, Head(entries)), Head(entries), cb),
                        Tail(entries), cb)

\* Mutant: the catch gives up: a poll whose read throws stops the monitor.
CheckLCP_StopsOnError(w, throws, cb) ==
  IF throws THEN StopOp(w)
  ELSE IF Len(lcpBuffer) > 0
       THEN LET lastEntry == lcpBuffer[Len(lcpBuffer)]
            IN HandleLCPEntry(RecordDelivery(w, lastEntry), lastEntry, cb)
       ELSE w

\* checkLCP of startFallbackMethod: the last buffered entry, if any; a throwing
\* read is caught.
CheckLCP(w, throws, cb) ==
  IF throws THEN w
  ELSE IF Len(lcpBuffer) > 0
       THEN LET lastEntry == lcpBuffer[Len(lcpBuffer)]
            IN HandleLCPEntry(RecordDelivery(w, lastEntry), lastEntry, cb)
       ELSE w

\* startFallbackMethod(): checkLCP(), setInterval, addEventListener('load', once).
\* The interval handle and the listener closure are named by the session.
StartFallbackMethod(w, throws, cb) ==
  LET w1 == CheckLCP(w, throws, cb)
  IN [w1 EXCEPT !.fallbackCheckInterval = w1.session,
                !.intervals = @ \cup {w1.session},
                !.loadListeners = @ \cup {w1.session}]

\* Mutant: the catch is missing, the constructor's or observe()'s error leaves
\* start() with nothing set up.
StartPerformanceObserver_NoFallback(w, fail, throws, cb) ==
  IF fail = "constructor" THEN w
  ELSE IF fail = "observe" THEN [w EXCEPT !.observer = w.session]
       ELSE [w EXCEPT !.observer = w.session,
                      !.connected = @ \cup {w.session},
                      !.observerQueue = lcpBuffer]

\* startPerformanceObserver(): observe({type, buffered: true}) queues the buffered
\* entries for the new observer; a throw falls back.
StartPerformanceObserver(w, fail, throws, cb) ==
  IF fail = "constructor" THEN StartFallbackMethod(w, throws, cb)
  ELSE IF fail = "observe"
       THEN StartFallbackMethod([w EXCEPT !.observer = w.session], throws, cb)
       ELSE [w EXCEPT !.observer = w.session,
                      !.connected = @ \cup {w.session},
                      !.observerQueue = lcpBuffer]

\* Mutant: start() does not reset hasTriggered.
StartOp_NoReset(w, fail, throws, cb) ==
  IF w.isObserving THEN w
  ELSE LET w1 == [w EXCEPT !.isObserving = TRUE,
                           !.session = @ + 1, !.firstExceeding = Null]
       IN IF supportsPO
          THEN StartPerformanceObserver(w1, fail, throws, cb)
          ELSE StartFallbackMethod(w1, throws, cb)

\* Mutant: start() lacks the already-running guard.
StartOp_NoRunningGuard(w, fail, throws, cb) ==
  LET w1 == [w EXCEPT !.isObserving = TRUE, !.hasTriggered = FALSE,
                      !.session = IF w.isObserving THEN @ ELSE @ + 1,
                      !.firstExceeding = IF w.isObserving THEN @ ELSE Null]
  IN IF supportsPO
     THEN StartPerformanceObserver(w1, fail, throws, cb)
     ELSE StartFallbackMethod(w1, throws, cb)

\* start()
StartOp(w, fail, throws, cb) ==
  IF w.isObserving THEN w
  ELSE LET w1 == [w EXCEPT !.isObserving = TRUE, !.hasTriggered = FALSE,
                           !.session = @ + 1, !.firstExceeding = Null]
       IN IF supportsPO
          THEN StartPerformanceObserver(w1, fail, throws, cb)
          ELSE StartFallbackMethod(w1, throws, cb)

\* getCurrentLCP()
GetCurrentLCP == currentLCP

\* isRunning()
IsRunning == isObserving

\* A settle timeout (load + 2000 ms) runs: checkLCP(), then the monitor's current
\* interval is cleared.
SettleTimeoutOp(w, throws, cb) ==
  LET w1 == CheckLCP(w, throws, cb)
  IN IF w1.fallbackCheckInterval # 0
     THEN [w1 EXCEPT !.intervals = @ \ {w1.fallbackCheckInterval},
                     !.fallbackCheckInterval = 0]
     ELSE w1

\* ----------------------------------------------------- ResourceCollector
Min(a, b) == IF a < b THEN a ELSE b

Range(q) == { q[i] : i \in DOMAIN q }

\* array.slice(0, n)
Slice(q, n) == SubSeq(q, 1, Min(n, Len(q)))

\* Mutant: a failed read is not turned into [] (the buffer is used as it is).
CollectResourceTiming_Unguarded ==
  [i \in DOMAIN resources |->
     [name |-> resources[i].name, duration |-> resources[i].duration,
      initiatorType |-> IF resources[i].initiatorType = "" THEN "other"
                        ELSE resources[i].initiatorType]]

\* collectResourceTiming(): [] when the Performance API is missing or the read
\* throws; else the buffer mapped entry by entry (initiatorType || 'other').
CollectResourceTiming ==
  IF perfApi # "ok" THEN <<>>
  ELSE [i \in DOMAIN resources |->
          [name |-> resources[i].name, duration |-> resources[i].duration,
           initiatorType |-> IF resources[i].initiatorType = "" THEN "other"
                             ELSE resources[i].initiatorType]]

\* One step of Array.prototype.sort((a, b) => b.duration - a.duration), a stable
\* sort: ref x, which follows every ref of sorted in the array being sorted, goes
\* before the first ref of strictly smaller duration.
InsertByDuration(all, sorted, x) ==
  LET ahead == { i \in DOMAIN sorted : all[sorted[i]].duration >= all[x].duration }
      k == Cardinality(ahead)
  IN SubSeq(sorted, 1, k) \o <<x>> \o SubSeq(sorted, k + 1, Len(sorted))

RECURSIVE SortByDurationDesc(_, _)
SortByDurationDesc(all, refs) ==
  IF refs = <<>> THEN <<>>
  ELSE InsertByDuration(all, SortByDurationDesc(all, SubSeq(refs, 1, Len(refs) - 1)),
                        refs[Len(refs)])

\* The references 1..Len(all), in array order.
Refs(all) == [i \in 1..Len(all) |-> i]

\* Mutant: the first maxResources records are taken without sorting.
GetTopResourcesByDuration_NoSort(all) ==
  Slice(Refs(all), maxResources)

\* getTopResourcesByDuration(resources)
GetTopResourcesByDuration(all) ==
  Slice(SortByDurationDesc(all, Refs(all)), maxResources)

\* name.includes('.css')
IncludesCss(name) == \E i \in DOMAIN name : name[i] = ".css"

\* getElementResourceUrl(element): [threw, url], url <<>> standing for null.
GetElementResourceUrl(element) ==
  IF element.tagName \in {"IMG", "VIDEO"}
  THEN [threw |-> FALSE, url |-> element.src]
  ELSE IF element.styleThrows
       THEN [threw |-> TRUE, url |-> <<>>]
       ELSE IF element.backgroundImage.kind = "url"
            THEN [threw |-> FALSE, url |-> element.backgroundImage.url]
            ELSE [threw |-> FALSE, url |-> <<>>]

\* Mutant: the LCP element is ignored, every record is ranked by duration.
CollectCriticalResources_NoPriority(lcpElement) ==
  GetTopResourcesByDuration(CollectResourceTiming)

\* Mutant: the final slice(0, maxResources) is missing.
CollectCriticalResources_NoFinalSlice(lcpElement) ==
  LET allResources == CollectResourceTiming
  IN IF lcpElement = Null THEN GetTopResourcesByDuration(allResources)
     ELSE LET resolved == GetElementResourceUrl(lcpElement)
          IN IF resolved.threw
             THEN GetTopResourcesByDuration(CollectResourceTiming)
             ELSE LET elementUrl == resolved.url
                      matching == { i \in DOMAIN allResources :
                                      allResources[i].name = elementUrl }
                      first == IF elementUrl # <<>> /\ matching # {}
                               THEN << CHOOSE i \in matching : \A j \in matching : i <= j >>
                               ELSE <<>>
                      stylesheets ==
                        SelectSeq(Refs(allResources),
                                  LAMBDA i : /\ allResources[i].initiatorType = "link"
                                             /\ IncludesCss(allResources[i].name))
                      critical == first \o stylesheets
                      remainingSlots == maxResources - Len(critical)
                      otherResources ==
                        IF remainingSlots > 0
                        THEN Slice(SortByDurationDesc(allResources,
                                     SelectSeq(Refs(allResources),
                                               LAMBDA i : i \notin Range(critical))),
                                   remainingSlots)
                        ELSE <<>>
                  IN critical \o otherResources

\* Mutant: the catch returns [] instead of the ranking by duration.
CollectCriticalResources_CatchReturnsEmpty(lcpElement) ==
  LET allResources == CollectResourceTiming
  IN IF lcpElement = Null THEN GetTopResourcesByDuration(allResources)
     ELSE LET resolved == GetElementResourceUrl(lcpElement)
          IN IF resolved.threw
             THEN <<>>
             ELSE LET elementUrl == resolved.url
                      matching == { i \in DOMAIN allResources :
                                      allResources[i].name = elementUrl }
                      first == IF elementUrl # <<>> /\ matching # {}
                               THEN << CHOOSE i \in matching : \A j \in matching : i <= j >>
                               ELSE <<>>
                      stylesheets ==
                        SelectSeq(Refs(allResources),
                                  LAMBDA i : /\ allResources[i].initiatorType = "link"
                                             /\ IncludesCss(allResources[i].name))
                      critical == first \o stylesheets
                      remainingSlots == maxResources - Len(critical)
                      otherResources ==
                        IF remainingSlots > 0
                        THEN Slice(SortByDurationDesc(allResources,
                                     SelectSeq(Refs(allResources),
                                               LAMBDA i : i \notin Range(critical))),
                                   remainingSlots)
                        ELSE <<>>
                  IN Slice(critical \o otherResources, maxResources)

\* Mutant: the filler is taken in buffer order, the sort is missing.
CollectCriticalResources_UnsortedFiller(lcpElement) ==
  LET allResources == CollectResourceTiming
  IN IF lcpElement = Null THEN GetTopResourcesByDuration(allResources)
     ELSE LET resolved == GetElementResourceUrl(lcpElement)
          IN IF resolved.threw
             THEN GetTopResourcesByDuration(CollectResourceTiming)
             ELSE LET elementUrl == resolved.url
                      matching == { i \in DOMAIN allResources :
                                      allResources[i].name = elementUrl }
                      first == IF elementUrl # <<>> /\ matching # {}
                               THEN << CHOOSE i \in matching : \A j \in matching : i <= j >>
                               ELSE <<>>
                      stylesheets ==
                        SelectSeq(Refs(allResources),
                                  LAMBDA i : /\ allResources[i].initiatorType = "link"
                                             /\ IncludesCss(allResources[i].name))
                      critical == first \o stylesheets
                      remainingSlots == maxResources - Len(critical)
                      otherResources ==
                        IF remainingSlots > 0
                        THEN Slice(SelectSeq(Refs(allResources),
                                             LAMBDA i : i \notin Range(critical)),
                                   remainingSlots)
                        ELSE <<>>
                  IN Slice(critical \o otherResources, maxResources)

\* collectCriticalResources(lcpElement): references into allResources.
CollectCriticalResources(lcpElement) ==
  LET allResources == CollectResourceTiming
  IN IF lcpElement = Null THEN GetTopResourcesByDuration(allResources)
     ELSE LET resolved == GetElementResourceUrl(lcpElement)
          IN IF resolved.threw
             THEN GetTopResourcesByDuration(CollectResourceTiming)
             ELSE LET elementUrl == resolved.url
                      matching == { i \in DOMAIN allResources :
                                      allResources[i].name = elementUrl }
                      first == IF elementUrl # <<>> /\ matching # {}
                               THEN << CHOOSE i \in matching : \A j \in matching : i <= j >>
                               ELSE <<>>
                      stylesheets ==
                        SelectSeq(Refs(allResources),
                                  LAMBDA i : /\ allResources[i].initiatorType = "link"
                                             /\ IncludesCss(allResources[i].name))
                      critical == first \o stylesheets
                      remainingSlots == maxResources - Len(critical)
                      otherResources ==
                        IF remainingSlots > 0
                        THEN Slice(SortByDurationDesc(allResources,
                                     SelectSeq(Refs(allResources),
                                               LAMBDA i : i \notin Range(critical))),
                                   remainingSlots)
                        ELSE <<>>
                  IN Slice(critical \o otherResources, maxResources)

\* ------------------------------------------------------------- actions
MonitorInit ==
  /\ threshold = Threshold
  /\ isObserving = FALSE
  /\ hasTriggered = FALSE
  /\ currentLCP = Null
  /\ observer = 0
  /\ fallbackCheckInterval = 0
  /\ lcpBuffer = <<>>
  /\ connected = {}
  /\ observerQueue = <<>>
  /\ intervals = {}
  /\ loadListeners = {}
  /\ settleTimers = {}
  /\ loadFired = FALSE
  /\ session = 0
  /\ fired = <<>>
  /\ firstExceeding = Null
  /\ lastDelivered = Null
  /\ lastCall = "none"

\* No tracer takes part.
TracerIdle ==
  /\ isRunning = FALSE
  /\ lcpMonitor = 0
  /\ detached = <<>>
  /\ handled = <<>>
  /\ gate = Null

\* No ConfigManager, tracer or reporter takes part.
AppIdle ==
  /\ rawConfig = Null
  /\ config = Null
  /\ constructed = "none"
  /\ configWarnings = <<>>
  /\ newrelic = "available"
  /\ sinkCalls = <<>>
  /\ traceData = Null
  /\ sendTracePromise = "none"
  /\ TracerIdle

\* No navigation snapshot is taken.
NavigationIdle ==
  /\ timing = Null
  /\ paintEntries = <<>>
  /\ snapshot = Null

Init ==
  /\ MonitorInit
  /\ supportsPO \in BOOLEAN
  /\ maxResources = DefaultMaxResources
  /\ resources = <<>>
  /\ perfApi = "ok"
  /\ lcpElementArg = Null
  /\ result = <<>>
  /\ collected = FALSE
  /\ NavigationIdle
  /\ AppIdle

\* monitor.start()
Start(fail, throws, cb) ==
  /\ isObserving \/ Len(lcpBuffer) + session < MaxEvents
  /\ SetWorld(StartOp(World, fail, throws, cb))
  /\ lastCall' = "start"
  /\ UNCHANGED <<threshold, supportsPO, lcpBuffer, settleTimers, loadFired, collectorVars, appVars>>

\* monitor.stop()
Stop ==
  /\ SetWorld(StopOp(World))
  /\ lastCall' = "stop"
  /\ UNCHANGED <<threshold, supportsPO, lcpBuffer, settleTimers, loadFired, collectorVars, appVars>>

\* The browser records a new largest-contentful-paint entry: it is buffered and
\* queued for the connected observer.
EmitLCP(e) ==
  /\ Len(lcpBuffer) + session < MaxEvents
  /\ lcpBuffer' = Append(lcpBuffer, e)
  /\ observerQueue' = IF connected # {} THEN Append(observerQueue, e) ELSE observerQueue
  /\ lastCall' = "none"
  /\ UNCHANGED <<monitorFields, supportsPO, connected, intervals, loadListeners,
                 settleTimers, loadFired, session, fired, firstExceeding,
                 lastDelivered, collectorVars, appVars>>

\* The browser delivers the queued records to the observer's callback.
DeliverObserved(cb) ==
  /\ connected # {}
  /\ observerQueue # <<>>
  /\ SetWorld(ObserverCallback([World EXCEPT !.observerQueue = <<>>], observerQueue, cb))
  /\ lastCall' = "none"
  /\ UNCHANGED <<threshold, supportsPO, lcpBuffer, settleTimers, loadFired, collectorVars, appVars>>

\* An active interval timer fires: checkLCP(). A poll whose buffer read threw is
\* noted in lastCall.
IntervalTick(throws, cb) ==
  /\ intervals # {}
  /\ SetWorld(CheckLCP(World, throws, cb))
  /\ lastCall' = IF throws THEN "pollFailed" ELSE "none"
  /\ UNCHANGED <<threshold, supportsPO, lcpBuffer, settleTimers, loadFired, collectorVars, appVars>>

\* The window's load event: every registered once-listener runs and schedules its
\* 2000 ms timeout.
LoadEvent ==
  /\ ~loadFired
  /\ loadFired' = TRUE
  /\ settleTimers' = settleTimers \cup loadListeners
  /\ loadListeners' = {}
  /\ lastCall' = "none"
  /\ UNCHANGED <<monitorFields, supportsPO, lcpBuffer, connected, observerQueue, intervals,
                 session, fired, firstExceeding, lastDelivered, collectorVars, appVars>>

\* The settle timeout scheduled by session s's load listener fires. The timeouts
\* were all set while the one load event was dispatched, with the same delay, in
\* the order the listeners were added: they run in that order.
SettleTimeout(s, throws, cb) ==
  /\ s \in settleTimers
  /\ \A t \in settleTimers : s <= t
  /\ settleTimers' = settleTimers \ {s}
  /\ SetWorld(SettleTimeoutOp(World, throws, cb))
  /\ lastCall' = "none"
  /\ UNCHANGED <<threshold, supportsPO, lcpBuffer, loadFired, collectorVars, appVars>>

Next ==
  \/ \E fail \in ObserverFailures, throws \in BOOLEAN, cb \in CallbackBehaviours :
       Start(fail, throws, cb)
  \/ Stop
  \/ \E e \in PerfLCPEntries : EmitLCP(e)
  \/ \E cb \in CallbackBehaviours : DeliverObserved(cb)
  \/ \E throws \in BOOLEAN, cb \in CallbackBehaviours : IntervalTick(throws, cb)
  \/ LoadEvent
  \/ \E s \in 1..MaxEvents, throws \in BOOLEAN, cb \in CallbackBehaviours :
       SettleTimeout(s, throws, cb)

Spec == Init /\ [][Next]_vars

\* ------------------------------------------- the collector, on its own
\* A collector constructed with maxResources, a resource-timing buffer and an LCP
\* element; the monitor is idle.
InitCollector ==
  /\ MonitorInit
  /\ supportsPO = TRUE
  /\ maxResources \in 1..MaxMaxResources
  /\ resources \in SeqsUpTo(ResourceEntries, MaxBuffer)
  /\ perfApi \in {"ok", "missing", "throws"}
  \* a buffer the code cannot read is kept short: its content is never seen
  /\ perfApi # "ok" => Len(resources) <= 1
  /\ lcpElementArg \in LCPElements
  /\ result = <<>>
  /\ collected = FALSE
  /\ NavigationIdle
  /\ AppIdle

\* resourceCollector.collectCriticalResources(lcpElementArg)
Collect ==
  /\ ~collected
  /\ result' = CollectCriticalResources(lcpElementArg)
  /\ collected' = TRUE
  /\ UNCHANGED <<monitorFields, platformVars, historyVars, maxResources, resources,
                 perfApi, lcpElementArg, timing, paintEntries, snapshot, appVars>>

NextCollector == Collect

SpecCollector == InitCollector /\ [][NextCollector]_vars

\* ------------------------------------------- ResourceCollector: navigation
DefaultNavigationData ==
  [domContentLoaded |-> 0, loadComplete |-> 0,
   firstContentfulPaint |-> 0, largestContentfulPaint |-> 0]

\* Mutant: a negative offset is returned as it is computed.
NavigationData_NoClamp ==
  LET navigationStart == timing.navigationStart
      fcp == { i \in DOMAIN paintEntries : paintEntries[i].name = "first-contentful-paint" }
      first == CHOOSE i \in fcp : \A j \in fcp : i <= j
  IN [domContentLoaded |-> timing.domContentLoadedEventEnd - navigationStart,
      loadComplete |-> timing.loadEventEnd - navigationStart,
      firstContentfulPaint |-> IF fcp # {} THEN paintEntries[first].startTime ELSE 0,
      largestContentfulPaint |-> IF Len(lcpBuffer) > 0
                                 THEN lcpBuffer[Len(lcpBuffer)].startTime ELSE 0]

\* The try block of collectNavigationTiming() when every read succeeds.
NavigationData ==
  LET navigationStart == timing.navigationStart
      domContentLoaded == timing.domContentLoadedEventEnd - navigationStart
      loadComplete == timing.loadEventEnd - navigationStart
      fcp == { i \in DOMAIN paintEntries : paintEntries[i].name = "first-contentful-paint" }
      first == CHOOSE i \in fcp : \A j \in fcp : i <= j
  IN [domContentLoaded |-> IF domContentLoaded > 0 THEN domContentLoaded ELSE 0,
      loadComplete |-> IF loadComplete > 0 THEN loadComplete ELSE 0,
      firstContentfulPaint |-> IF fcp # {} THEN paintEntries[first].startTime ELSE 0,
      largestContentfulPaint |-> IF Len(lcpBuffer) > 0
                                 THEN lcpBuffer[Len(lcpBuffer)].startTime ELSE 0]

\* Mutant: a failed buffer read keeps what was computed before it.
CollectNavigationTiming_KeepsPartial ==
  IF perfApi = "missing" \/ timing = Null THEN DefaultNavigationData
  ELSE IF perfApi = "throws"
       THEN [NavigationData EXCEPT !.firstContentfulPaint = 0, !.largestContentfulPaint = 0]
       ELSE NavigationData

\* collectNavigationTiming(): the default when performance or performance.timing
\* is missing, and from the catch when a getEntriesByType read throws.
CollectNavigationTiming ==
  IF perfApi = "missing" \/ timing = Null THEN DefaultNavigationData
  ELSE IF perfApi = "throws" THEN DefaultNavigationData
  ELSE NavigationData

\* ------------------------------------------- the navigation snapshot, on its own
\* performance.timing values: the load event may not have ended yet (0), and
\* navigationStart may lie after an event's end.
Timings ==
  [navigationStart : {0, 1}, domContentLoadedEventEnd : 0..2, loadEventEnd : {0, 2}]

\* Buffers of paint entries: none, first-paint alone, with one
\* first-contentful-paint entry, or with two.
PaintBuffers ==
  { <<>>,
    <<[name |-> "first-paint", startTime |-> 1]>>,
    <<[name |-> "first-paint", startTime |-> 1],
      [name |-> "first-contentful-paint", startTime |-> 2]>>,
    <<[name |-> "first-contentful-paint", startTime |-> 1],
      [name |-> "first-contentful-paint", startTime |-> 2]>> }

\* A page before any snapshot is taken; the monitor is idle.
InitNavigation ==
  /\ MonitorInit
  /\ supportsPO = TRUE
  /\ maxResources = DefaultMaxResources
  /\ resources = <<>>
  /\ perfApi \in {"ok", "missing", "throws"}
  /\ lcpElementArg = Null
  /\ result = <<>>
  /\ collected = FALSE
  /\ timing \in Timings \cup {Null}
  /\ paintEntries \in PaintBuffers
  /\ snapshot = Null
  /\ AppIdle

\* The page records largest-contentful-paint entries until the snapshot is taken.
PaintLCP(e) ==
  /\ snapshot = Null
  /\ EmitLCP(e)

\* resourceCollector.collectNavigationTiming()
CollectNavigation ==
  /\ snapshot = Null
  /\ snapshot' = CollectNavigationTiming
  /\ UNCHANGED <<monitorFields, platformVars, historyVars, maxResources, resources,
                 perfApi, lcpElementArg, result, collected, timing, paintEntries, appVars>>

NextNavigation ==
  \/ \E e \in { p \in PerfLCPEntries : p.renderTime = 0 } : PaintLCP(e)
  \/ CollectNavigation

SpecNavigation == InitNavigation /\ [][NextNavigation]_vars

\* ------------------------------------------------------------ ConfigManager
\* An optional property of the constructor's argument: <<>> when it is undefined
\* (or the whole argument is), <<v>> when it is given.
Given(o) == o # <<>>

\* config?.x ?? d
OrDefault(o, d) == IF Given(o) THEN o[1] ELSE d

\* Rates and sampling draws are counted in units of 1/RateScale, so RateScale is 1.0.
DEFAULT_LCP_THRESHOLD == 2500
DEFAULT_SAMPLING_RATE == RateScale
DEFAULT_DEBUG == FALSE
DEFAULT_ENABLED == TRUE

\* Mutant: an out-of-range rate is clamped to the nearer end of the range.
ValidateSamplingRate_Clamped(rate) ==
  IF ~Given(rate) THEN DEFAULT_SAMPLING_RATE
  ELSE IF rate[1] < 0 THEN 0
  ELSE IF rate[1] > RateScale THEN RateScale
  ELSE rate[1]

\* validateSamplingRate(rate)
ValidateSamplingRate(rate) ==
  IF ~Given(rate) THEN DEFAULT_SAMPLING_RATE
  ELSE IF rate[1] < 0 \/ rate[1] > RateScale THEN DEFAULT_SAMPLING_RATE
  ELSE rate[1]

\* The console.warn call of validateSamplingRate(rate), if it makes one.
SamplingRateWarnings(rate) ==
  IF Given(rate) /\ (rate[1] < 0 \/ rate[1] > RateScale)
  THEN <<[invalid |-> "sampling rate", value |-> rate[1]]>> ELSE <<>>

\* The console.warn call of validateMaxResources(maxResources), if it makes one.
MaxResourcesWarnings(m) ==
  IF Given(m) /\ (m[1] < 1 \/ m[1] > 100)
  THEN <<[invalid |-> "maxResources", value |-> m[1]]>> ELSE <<>>

\* Mutant: an out-of-range maxResources is clamped to the nearer end of the range.
ValidateMaxResources_Clamped(m) ==
  IF ~Given(m) THEN DefaultMaxResources
  ELSE IF m[1] < 1 THEN 1
  ELSE IF m[1] > 100 THEN 100
  ELSE m[1]

\* validateMaxResources(maxResources)
ValidateMaxResources(m) ==
  IF ~Given(m) THEN DefaultMaxResources
  ELSE IF m[1] < 1 \/ m[1] > 100 THEN DefaultMaxResources
  ELSE m[1]

\* Mutant: the threshold is not validated.
ValidateConfig_NoCheck(cfg) == FALSE

\* validateConfig(): TRUE when it throws.
ValidateConfig(cfg) == cfg.lcpThreshold < 0

\* Mutant: the draw is compared with <= instead of <.
ShouldSample_NonStrict(draw) ==
  IF ~config.enabled THEN FALSE ELSE draw <= config.samplingRate

\* shouldSample(); draw is what Math.random() returns, in units of 1/RateScale.
ShouldSample(draw) ==
  IF ~config.enabled THEN FALSE ELSE draw < config.samplingRate

\* new ConfigManager(raw): the config field, whether the constructor threw, and
\* the warnings logged while the object literal was evaluated.
NewConfigManager(raw) ==
  LET cfg == [lcpThreshold |-> OrDefault(raw.lcpThreshold, DEFAULT_LCP_THRESHOLD),
              samplingRate |-> ValidateSamplingRate(raw.samplingRate),
              debug |-> OrDefault(raw.debug, DEFAULT_DEBUG),
              enabled |-> OrDefault(raw.enabled, DEFAULT_ENABLED),
              maxResources |-> ValidateMaxResources(raw.maxResources)]
  IN [threw |-> ValidateConfig(cfg), config |-> cfg,
      warnings |-> SamplingRateWarnings(raw.samplingRate)
                   \o MaxResourcesWarnings(raw.maxResources)]

Optional(S) == {<<>>} \cup { <<v>> : v \in S }

\* The arguments a caller may pass: every property absent or given, numbers on
\* both sides of each validated range.
RawConfigs ==
  [lcpThreshold : Optional(-1..(Threshold + 1)),
   samplingRate : Optional(-1..(RateScale + 1)),
   debug : Optional(BOOLEAN),
   enabled : Optional(BOOLEAN),
   maxResources : Optional(0..MaxMaxResources \cup {100, 101})]

InitConfig ==
  /\ MonitorInit
  /\ supportsPO = TRUE
  /\ maxResources = DefaultMaxResources
  /\ resources = <<>>
  /\ perfApi = "ok"
  /\ lcpElementArg = Null
  /\ result = <<>>
  /\ collected = FALSE
  /\ NavigationIdle
  /\ rawConfig \in RawConfigs
  /\ config = Null
  /\ constructed = "none"
  /\ configWarnings = <<>>
  /\ newrelic = "available"
  /\ sinkCalls = <<>>
  /\ traceData = Null
  /\ sendTracePromise = "none"
  /\ TracerIdle

\* new ConfigManager(rawConfig)
ConstructConfigManager ==
  /\ constructed = "none"
  /\ LET r == NewConfigManager(rawConfig)
     IN /\ constructed' = IF r.threw THEN "threw" ELSE "ConfigManager"
        /\ config' = IF r.threw THEN Null ELSE r.config
        /\ configWarnings' = configWarnings \o r.warnings
  /\ UNCHANGED <<monitorFields, platformVars, historyVars, collectorVars, rawConfig,
                 reporterVars, tracerVars>>

\* new LCPPerformanceTracer(rawConfig): the ConfigManager's error propagates; else
\* the collector is built with the validated maxResources.
ConstructTracer ==
  /\ constructed = "none"
  /\ LET r == NewConfigManager(rawConfig)
     IN /\ constructed' = IF r.threw THEN "threw" ELSE "LCPPerformanceTracer"
        /\ config' = IF r.threw THEN Null ELSE r.config
        /\ configWarnings' = configWarnings \o r.warnings
        /\ maxResources' = IF r.threw THEN maxResources ELSE r.config.maxResources
  /\ UNCHANGED <<monitorFields, platformVars, historyVars, resources, perfApi,
                 lcpElementArg, result, collected, timing, paintEntries, snapshot,
                 rawConfig,
                 reporterVars, tracerVars>>

NextConfig == ConstructConfigManager \/ ConstructTracer

SpecConfig == InitConfig /\ [][NextConfig]_vars

\* ------------------------------------------------------------ NewRelicReporter
\* isNewRelicAvailable()
IsNewRelicAvailable == newrelic = "available"

\* The number of characters of a string of the model (a sequence of tokens).
TokenLength(tok) ==
  IF tok \in {".png", ".css"} THEN 4
  ELSE IF tok = "https://example.com/aaa...aaa" THEN 320
  ELSE 24

RECURSIVE StringLength(_)
StringLength(str) ==
  IF str = <<>> THEN 0 ELSE TokenLength(Head(str)) + StringLength(Tail(str))

\* truncateString(str, maxLength): '' for an empty or absent string; a string
\* longer than maxLength is cut to maxLength - 3 characters plus '...'.
TruncateString(str, maxLength) ==
  IF str = <<>> THEN <<>>
  ELSE IF StringLength(str) > maxLength
       THEN <<[substring |-> str, end |-> maxLength - 3], "...">>
       ELSE str

\* A page URL is a string of the model: its part up to the query, then one token
\* per name=value pair of the query ('?' and '&' go with the pair). PageUrl and
\* LongPageUrl are absolute (new URL accepts them, already normalised);
\* RelativePageUrl has no scheme, new URL(url) throws on it.
PageUrl == "https://example.com/page"
LongPageUrl == "https://example.com/aaa...aaa"
RelativePageUrl == "/page"

\* The pairs a query holds: the text as written, the name and value
\* URLSearchParams decodes it to, and whether the text is the form
\* URLSearchParams.toString() writes (space as '+', brackets percent-encoded).
QueryPairs ==
  { [text |-> "token=secret123", name |-> "token", value |-> "secret123", canonical |-> TRUE],
    [text |-> "token=other", name |-> "token", value |-> "other", canonical |-> TRUE],
    [text |-> "key=abc", name |-> "key", value |-> "abc", canonical |-> TRUE],
    [text |-> "normal=value", name |-> "normal", value |-> "value", canonical |-> TRUE],
    [text |-> "q=a%20b", name |-> "q", value |-> "a b", canonical |-> FALSE],
    [text |-> "q=a+b", name |-> "q", value |-> "a b", canonical |-> TRUE],
    [text |-> "token=%5BREDACTED%5D", name |-> "token", value |-> "[REDACTED]",
     canonical |-> TRUE],
    [text |-> "key=%5BREDACTED%5D", name |-> "key", value |-> "[REDACTED]",
     canonical |-> TRUE] }

\* new URLSearchParams(search): the list of decoded [name, value] pairs.
ParseParam(text) ==
  LET p == CHOOSE q \in QueryPairs : q.text = text
  IN [name |-> p.name, value |-> p.value]

URLSearchParams(search) == [i \in DOMAIN search |-> ParseParam(search[i])]

\* params.toString()
SerializeParam(param) ==
  (CHOOSE q \in QueryPairs :
     q.name = param.name /\ q.value = param.value /\ q.canonical).text

ParamsToString(params) == [i \in DOMAIN params |-> SerializeParam(params[i])]

\* params.has(name)
ParamsHas(params, name) == \E i \in DOMAIN params : params[i].name = name

\* params.set(name, value): the first pair named name takes the value, the other
\* pairs of that name are removed (a pair is appended when there is none).
RECURSIVE ParamsSetFrom(_, _, _, _)
ParamsSetFrom(params, name, value, found) ==
  IF params = <<>>
  THEN IF found THEN <<>> ELSE <<[name |-> name, value |-> value]>>
  ELSE IF Head(params).name = name
       THEN IF found THEN ParamsSetFrom(Tail(params), name, value, TRUE)
            ELSE <<[name |-> name, value |-> value]>>
                 \o ParamsSetFrom(Tail(params), name, value, TRUE)
       ELSE <<Head(params)>> \o ParamsSetFrom(Tail(params), name, value, found)

ParamsSet(params, name, value) == ParamsSetFrom(params, name, value, FALSE)

\* sensitiveParams of sanitizeUrl
sensitiveParams == <<"token", "key", "password", "secret", "auth", "api_key", "apikey">>

\* sensitiveParams.forEach(param => { if (params.has(param)) params.set(param, '[REDACTED]') })
RECURSIVE RedactParams(_, _)
RedactParams(params, names) ==
  IF names = <<>> THEN params
  ELSE RedactParams(IF ParamsHas(params, Head(names))
                    THEN ParamsSet(params, Head(names), "[REDACTED]")
                    ELSE params,
                    Tail(names))

\* new URL(url) throws on a string that is not an absolute URL.
IsAbsoluteUrl(url) == url # <<>> /\ Head(url) \in {PageUrl, LongPageUrl}

\* sanitizeUrl(url): the query is parsed, redacted and written back; when new URL
\* throws the catch returns the string as it came, truncated.
SanitizeUrl(url) ==
  IF ~IsAbsoluteUrl(url) THEN TruncateString(url, 200)
  ELSE LET params == RedactParams(URLSearchParams(Tail(url)), sensitiveParams)
       IN TruncateString(<<Head(url)>> \o ParamsToString(params), 200)

\* Math.round on the model's times, which are whole milliseconds.
MathRound(x) == x

\* generateTraceId(timestamp): `lcp_${timestamp}_${Math.random()...}`; random is
\* what this call's Math.random() returned.
GenerateTraceId(timestamp, random) == <<"lcp", timestamp, random>>

\* formatMainEventData(data) with the event name it is recorded under; random is
\* the draw of its generateTraceId call. The attributes lcpElement, userAgent,
\* timestamp and samplingRate are left out.
FormatMainEventData(data, random) ==
  [lcpValue |-> MathRound(data.lcp.value),
   lcpUrl |-> TruncateString(data.lcp.url, 200),
   domContentLoaded |-> MathRound(data.navigation.domContentLoaded),
   loadComplete |-> MathRound(data.navigation.loadComplete),
   firstContentfulPaint |-> MathRound(data.navigation.firstContentfulPaint),
   resourceCount |-> Len(data.resources),
   url |-> SanitizeUrl(data.url),
   traceId |-> GenerateTraceId(data.timestamp, random)]

\* Mutant: resourceIndex counts from 1.
FormatResourceEvents_OneBased(data, random) ==
  LET traceId == GenerateTraceId(data.timestamp, random)
  IN [i \in DOMAIN data.resources |->
        [traceId |-> traceId,
         resourceIndex |-> i,
         resourceName |-> TruncateString(data.resources[i].name, 200),
         resourceDuration |-> MathRound(data.resources[i].duration),
         resourceInitiatorType |-> data.resources[i].initiatorType,
         lcpValue |-> MathRound(data.lcp.value),
         url |-> SanitizeUrl(data.url)]]

\* formatResourceEvents(data): one generateTraceId call for all of them; the
\* array index counts from 0.
FormatResourceEvents(data, random) ==
  LET traceId == GenerateTraceId(data.timestamp, random)
  IN [i \in DOMAIN data.resources |->
        [traceId |-> traceId,
         resourceIndex |-> i - 1,
         resourceName |-> TruncateString(data.resources[i].name, 200),
         resourceDuration |-> MathRound(data.resources[i].duration),
         resourceInitiatorType |-> data.resources[i].initiatorType,
         lcpValue |-> MathRound(data.lcp.value),
         url |-> SanitizeUrl(data.url)]]

\* The try block of sendTrace(data), made as sendTrace call number trace.
\* throwAt is the ordinal of the recordCustomEvent call in which the sink throws
\* (0: none); random1 and random2 are the two Math.random() draws. It yields the
\* calls made and whether the block was left by an exception.
SendTraceTry(data, trace, throwAt, random1, random2) ==
  IF ~IsNewRelicAvailable THEN [calls |-> <<>>, threw |-> FALSE]
  ELSE
    LET main == [trace |-> trace, name |-> "LCPPerformanceTrace",
                 data |-> FormatMainEventData(data, random1), threw |-> throwAt = 1]
    IN IF throwAt = 1 THEN [calls |-> <<main>>, threw |-> TRUE]
       ELSE
         LET resourceEvents == FormatResourceEvents(data, random2)
             last == IF throwAt \in 2..(Len(resourceEvents) + 1)
                     THEN throwAt - 1 ELSE Len(resourceEvents)
         IN [calls |-> <<main>> \o
                       [i \in 1..last |->
                          [trace |-> trace, name |-> "LCPResourceTrace",
                           data |-> resourceEvents[i], threw |-> throwAt = i + 1]],
             threw |-> throwAt \in 2..(Len(resourceEvents) + 1)]

\* Mutant: after a failed send the whole trace is sent once more.
SendTrace_Retry(data, trace, throwAt, random1, random2) ==
  LET try == SendTraceTry(data, trace, throwAt, random1, random2)
  IN [calls |-> IF try.threw
                THEN try.calls \o SendTraceTry(data, trace, 0, random1, random2).calls
                ELSE try.calls,
      rejected |-> FALSE]

\* Mutant: the availability of the sink is not checked.
SendTrace_NoAvailabilityCheck(data, trace, throwAt, random1, random2) ==
  LET main == [trace |-> trace, name |-> "LCPPerformanceTrace",
               data |-> FormatMainEventData(data, random1), threw |-> FALSE]
  IN [calls |-> <<main>>, rejected |-> FALSE]

\* sendTrace(data): the catch logs whatever the try block threw, so the promise
\* never rejects.
SendTrace(data, trace, throwAt, random1, random2) ==
  [calls |-> SendTraceTry(data, trace, throwAt, random1, random2).calls,
   rejected |-> FALSE]

\* Values Math.random() may return.
Randoms == 0..MaxRandom

\* ResourceTimingData records handed to sendTrace.
ReportedResources ==
  { [name |-> HeroUrl, duration |-> MaxDuration, initiatorType |-> "img"],
    [name |-> MainCssUrl, duration |-> 0, initiatorType |-> "link"] }

\* window.location.href
LocationHref == <<PageUrl, "token=secret123", "normal=value">>

\* The page URLs a TraceData may carry: without a query, with sensitive and other
\* parameters in either order, a repeated sensitive name, a value written with
\* %20, a URL longer than 200 characters, one that is not absolute, and ''.
PageUrls ==
  { <<PageUrl>>,
    <<PageUrl, "token=secret123", "normal=value">>,
    <<PageUrl, "normal=value", "key=abc">>,
    <<PageUrl, "token=secret123", "token=other">>,
    <<PageUrl, "q=a%20b", "token=secret123">>,
    <<LongPageUrl, "token=secret123", "normal=value">>,
    <<RelativePageUrl, "token=secret123", "normal=value">>,
    <<>> }

\* TraceData values handed to sendTrace: every combination of the other fields
\* with the page's own URL, and every page URL with one resource.
TraceDatas ==
  [lcp : { ToLCPEntry(e) : e \in { p \in PerfLCPEntries : p.startTime = MaxTime } },
   resources : SeqsUpTo(ReportedResources, MaxBuffer),
   navigation : { [domContentLoaded |-> 0, loadComplete |-> 0,
                   firstContentfulPaint |-> 0, largestContentfulPaint |-> 0],
                  [domContentLoaded |-> 1, loadComplete |-> 2,
                   firstContentfulPaint |-> 1, largestContentfulPaint |-> MaxTime] },
   url : {LocationHref},
   timestamp : {1}]
  \cup
  [lcp : { ToLCPEntry(e) : e \in { p \in PerfLCPEntries : p.startTime = MaxTime } },
   resources : { <<r>> : r \in ReportedResources },
   navigation : { [domContentLoaded |-> 1, loadComplete |-> 2,
                   firstContentfulPaint |-> 1, largestContentfulPaint |-> MaxTime] },
   url : PageUrls,
   timestamp : {1}]

InitReporter ==
  /\ MonitorInit
  /\ supportsPO = TRUE
  /\ maxResources = DefaultMaxResources
  /\ resources = <<>>
  /\ perfApi = "ok"
  /\ lcpElementArg = Null
  /\ result = <<>>
  /\ collected = FALSE
  /\ rawConfig = Null
  /\ config = Null
  /\ constructed = "none"
  /\ configWarnings = <<>>
  /\ newrelic \in {"available", "absent", "notFunction"}
  /\ sinkCalls = <<>>
  /\ traceData \in TraceDatas
  /\ sendTracePromise = "none"
  /\ NavigationIdle
  /\ TracerIdle

\* reporter.sendTrace(traceData)
SendTraceCall(throwAt, random1, random2) ==
  /\ sendTracePromise = "none"
  /\ LET r == SendTrace(traceData, 1, throwAt, random1, random2)
     IN /\ sinkCalls' = sinkCalls \o r.calls
        /\ sendTracePromise' = IF r.rejected THEN "rejected" ELSE "resolved"
  /\ UNCHANGED <<monitorFields, platformVars, historyVars, collectorVars, configVars,
                 newrelic, traceData, tracerVars>>

NextReporter ==
  \E throwAt \in 0..(MaxBuffer + 1), random1, random2 \in Randoms :
    SendTraceCall(throwAt, random1, random2)

SpecReporter == InitReporter /\ [][NextReporter]_vars

\* -------------------------------------------------------- LCPPerformanceTracer
\* Mutant: no new monitor is constructed, the fields of the last one are kept
\* (but for isObserving).
NewMonitor_Reused ==
  [isObserving |-> FALSE, hasTriggered |-> hasTriggered, currentLCP |-> currentLCP,
   observer |-> 0, fallbackCheckInterval |-> 0]

\* The fields of an LCPMonitor as its constructor leaves them.
NewMonitor ==
  [isObserving |-> FALSE, hasTriggered |-> FALSE, currentLCP |-> Null,
   observer |-> 0, fallbackCheckInterval |-> 0]

MonitorOf(w) ==
  [isObserving |-> w.isObserving, hasTriggered |-> w.hasTriggered,
   currentLCP |-> w.currentLCP, observer |-> w.observer,
   fallbackCheckInterval |-> w.fallbackCheckInterval]

\* The world as monitor m's methods see it.
WithMonitor(w, m) ==
  [w EXCEPT !.isObserving = m.isObserving, !.hasTriggered = m.hasTriggered,
            !.currentLCP = m.currentLCP, !.observer = m.observer,
            !.fallbackCheckInterval = m.fallbackCheckInterval]

\* What the two Math.random() calls of one trace return in a tracer run: two
\* different values.
TraceIdRandoms == {<<0, MaxRandom>>}

\* The body of handleLCPDetected(lcpEntry) up to the end of sendTrace, which runs
\* within the monitor's callback invocation (sendTrace awaits nothing): the
\* navigation snapshot, the critical resources, the TraceData and the calls to
\* the sink. Date.now() is read once; the model's clock is the trace's ordinal.
\* The catch around it all leaves the returned promise resolved.
HandleLCPDetected(lcpEntry, trace, throwAt, random1, random2) ==
  LET navigationTiming == CollectNavigationTiming
      all == CollectResourceTiming
      refs == CollectCriticalResources(lcpEntry.element)
      data == [lcp |-> lcpEntry,
               resources |-> [i \in DOMAIN refs |-> all[refs[i]]],
               navigation |-> navigationTiming,
               url |-> LocationHref,
               timestamp |-> trace]
      sent == SendTrace(data, trace, throwAt, random1, random2)
  IN [data |-> data, calls |-> sent.calls, promise |-> "resolved"]

\* The callback the tracer gives its monitors, applied to the invocations a
\* monitor method made (those of w2.fired beyond w.fired): the calls to the sink
\* and the history. by names the monitor, running is the tracer's isRunning.
RECURSIVE Handle(_, _, _, _, _, _, _, _)
Handle(invocations, by, running, w2, calls, hs, throwAt, randoms) ==
  IF invocations = <<>> THEN [calls |-> calls, handled |-> hs]
  ELSE LET trace == Len(hs) + 1
           h == HandleLCPDetected(Head(invocations).entry, trace, throwAt,
                                  randoms[1], randoms[2])
       IN Handle(Tail(invocations), by, running, w2, calls \o h.calls,
                 Append(hs, [monitor |-> by,
                             tracerSession |-> IF running THEN w2.session ELSE 0,
                             entry |-> Head(invocations).entry,
                             first |-> w2.firstExceeding,
                             data |-> h.data,
                             promise |-> h.promise,
                             running |-> <<running, w2.isObserving>>]),
                 throwAt, randoms)

\* The effects of a monitor method that took world w to w2, on the sink. When
\* the method invoked the callback, the sink may throw in the first call of the
\* trace (throwAt 1), and Math.random() returns the two randoms.
Callbacks(w, w2, by, running) ==
  LET invocations == SubSeq(w2.fired, Len(w.fired) + 1, Len(w2.fired))
  IN IF invocations = <<>> THEN UNCHANGED <<sinkCalls, handled>>
     ELSE \E throwAt \in 0..1, randoms \in TraceIdRandoms :
            LET r == Handle(invocations, by, running, w2, sinkCalls, handled,
                            throwAt, randoms)
            IN /\ sinkCalls' = r.calls
               /\ handled' = r.handled

\* tracer.start()
TracerStart(fail, throws, draw) ==
  /\ isRunning \/ Len(lcpBuffer) + session < MaxEvents
  \* inputs that are not read are not varied
  /\ (isRunning \/ ~config.enabled) => draw = 0
  /\ (isRunning \/ ~config.enabled \/ ~ShouldSample(draw)) => (fail = "no" /\ ~throws)
  /\ ~supportsPO => fail = "no"
  /\ (supportsPO /\ fail = "no") => ~throws
  /\ perfApi # "ok" => (throws \/ (supportsPO /\ fail = "no"))
  /\ gate' = [running |-> isRunning,
              below |-> ~isRunning /\ config.enabled /\ draw < config.samplingRate,
              passed |-> ~isRunning /\ config.enabled /\ ShouldSample(draw)]
  /\ IF isRunning \/ ~config.enabled \/ ~ShouldSample(draw)
     THEN UNCHANGED <<monitorFields, connected, observerQueue, intervals, loadListeners,
                      session, fired, firstExceeding, lastDelivered,
                      isRunning, lcpMonitor, detached, sinkCalls, handled>>
     ELSE LET w == WithMonitor(World, NewMonitor)
              w2 == StartOp(w, fail, throws, "none")
          IN /\ isRunning' = TRUE
             /\ lcpMonitor' = w2.session
             /\ SetWorld(w2)
             /\ threshold' = config.lcpThreshold
             /\ detached' = detached
             /\ Callbacks(w, w2, w2.session, TRUE)
  /\ UNCHANGED <<supportsPO, lcpBuffer, settleTimers, loadFired, lastCall, collectorVars,
                 configVars, newrelic, traceData, sendTracePromise>>

\* tracer.stop()
TracerStop ==
  /\ IF ~isRunning
     THEN UNCHANGED <<monitorFields, connected, observerQueue, intervals, loadListeners,
                      session, fired, firstExceeding, lastDelivered,
                      isRunning, lcpMonitor, detached>>
     ELSE LET w2 == IF lcpMonitor # 0 THEN StopOp(World) ELSE World
          IN /\ SetWorld(WithMonitor(w2, NewMonitor))
             /\ threshold' = threshold
             /\ detached' = IF lcpMonitor # 0 /\ lcpMonitor \in w2.loadListeners \cup settleTimers
                            THEN [m \in DOMAIN detached \cup {lcpMonitor} |->
                                    IF m = lcpMonitor THEN MonitorOf(w2) ELSE detached[m]]
                            ELSE detached
             /\ lcpMonitor' = 0
             /\ isRunning' = FALSE
  /\ UNCHANGED <<supportsPO, lcpBuffer, settleTimers, loadFired, lastCall, collectorVars,
                 configVars, reporterVars, handled, gate>>

\* The browser delivers the queued records to the observer of the tracer's monitor.
TracerDeliverObserved ==
  /\ connected # {}
  /\ observerQueue # <<>>
  /\ LET w == [World EXCEPT !.observerQueue = <<>>]
         w2 == ObserverCallback(w, observerQueue, "none")
     IN /\ SetWorld(w2)
        /\ Callbacks(w, w2, lcpMonitor, isRunning)
  /\ UNCHANGED <<threshold, supportsPO, lcpBuffer, settleTimers, loadFired, lastCall,
                 collectorVars, configVars, newrelic, traceData, sendTracePromise,
                 isRunning, lcpMonitor, detached, gate>>

\* The interval timer of the tracer's monitor fires: checkLCP(). A read fails
\* for good when the Performance API does, and may fail once at any time.
TracerIntervalTick(throws) ==
  /\ intervals # {}
  /\ perfApi # "ok" => throws
  /\ LET w2 == CheckLCP(World, throws, "none")
     IN /\ SetWorld(w2)
        /\ Callbacks(World, w2, lcpMonitor, isRunning)
  /\ UNCHANGED <<threshold, supportsPO, lcpBuffer, settleTimers, loadFired, lastCall,
                 collectorVars, configVars, newrelic, traceData, sendTracePromise,
                 isRunning, lcpMonitor, detached, gate>>

\* The settle timeout scheduled by monitor m's load listener fires: checkLCP()
\* on that monitor, which the tracer may have dropped since.
TracerSettleTimeout(m, throws) ==
  /\ m \in settleTimers
  /\ \A t \in settleTimers : m <= t
  /\ perfApi # "ok" => throws
  /\ settleTimers' = settleTimers \ {m}
  /\ IF m = lcpMonitor
     THEN LET w2 == SettleTimeoutOp(World, throws, "none")
          IN /\ SetWorld(w2)
             /\ detached' = detached
             /\ Callbacks(World, w2, m, isRunning)
     ELSE LET w == WithMonitor(World, detached[m])
              w2 == SettleTimeoutOp(w, throws, "none")
          IN /\ SetWorld(WithMonitor(w2, MonitorOf(World)))
             /\ detached' = [d \in DOMAIN detached \ {m} |-> detached[d]]
             /\ Callbacks(w, w2, m, isRunning)
  /\ UNCHANGED <<threshold, supportsPO, lcpBuffer, loadFired, lastCall, collectorVars,
                 configVars, newrelic, traceData, sendTracePromise,
                 isRunning, lcpMonitor, gate>>

\* The LCP entries the page of a tracer run emits: images at or above the
\* threshold.
TracerLCPEntries ==
  { p \in PerfLCPEntries : p.renderTime = 0 /\ p.startTime >= Threshold }

\* The arguments the tracers of the runs are built with: sampling never, at the
\* lowest rate, always.
TracerRawConfigs ==
  [lcpThreshold : {<<Threshold>>},
   samplingRate : {<<0>>, <<1>>, <<RateScale>>},
   debug : {<<>>},
   enabled : {<<TRUE>>, <<FALSE>>},
   maxResources : {<<MaxMaxResources>>}]

\* The tracer that is enabled and samples every page.
NominalRawConfig ==
  [lcpThreshold |-> <<Threshold>>, samplingRate |-> <<RateScale>>, debug |-> <<>>,
   enabled |-> <<TRUE>>, maxResources |-> <<MaxMaxResources>>]

\* A page with one buffered resource and a tracer just constructed: the nominal
\* tracer on every platform, the other tracers on the nominal platform.
InitTracer ==
  /\ rawConfig \in TracerRawConfigs
  /\ config = NewConfigManager(rawConfig).config
  /\ constructed = "LCPPerformanceTracer"
  /\ configWarnings = NewConfigManager(rawConfig).warnings
  /\ MonitorInit
  /\ supportsPO \in BOOLEAN
  /\ maxResources = config.maxResources
  /\ resources = <<[name |-> HeroUrl, duration |-> MaxDuration, initiatorType |-> "img"]>>
  /\ perfApi \in {"ok", "throws"}
  /\ lcpElementArg = Null
  /\ result = <<>>
  /\ collected = FALSE
  /\ timing = [navigationStart |-> 1, domContentLoadedEventEnd |-> 2, loadEventEnd |-> 0]
  /\ paintEntries = <<[name |-> "first-paint", startTime |-> 1],
                      [name |-> "first-contentful-paint", startTime |-> 1]>>
  /\ snapshot = Null
  /\ newrelic \in {"available", "absent"}
  /\ rawConfig # NominalRawConfig =>
       (supportsPO /\ perfApi = "ok" /\ newrelic = "available")
  /\ sinkCalls = <<>>
  /\ traceData = Null
  /\ sendTracePromise = "none"
  /\ TracerIdle

NextTracer ==
  \/ \E throws \in BOOLEAN, draw \in 0..(RateScale - 1) : TracerStart("no", throws, draw)
  \/ TracerStop
  \/ \E e \in TracerLCPEntries : EmitLCP(e)
  \/ TracerDeliverObserved
  \/ \E throws \in BOOLEAN : TracerIntervalTick(throws)
  \/ LoadEvent
  \/ \E m \in settleTimers, throws \in BOOLEAN : TracerSettleTimeout(m, throws)

SpecTracer == InitTracer /\ [][NextTracer]_vars




\* ================================================================ claims
\* Callback invocations made in session s while the monitor was observing.
FiredIn(s) == { i \in DOMAIN fired : fired[i].session = s /\ fired[i].observing }

\* C1: within one monitor session (from a start() to the next stop()) the
\* threshold callback is invoked at most once, whatever candidates are delivered.
C1_AtMostOncePerSession ==
  \A s \in 1..session : Cardinality(FiredIn(s)) <= 1

\* The callback has fired in the running session and another candidate above the
\* threshold was delivered afterwards.
C1_Witness ==
  /\ isObserving
  /\ Cardinality(FiredIn(session)) = 1
  /\ firstExceeding # Null
  /\ lastDelivered # Null
  /\ lastDelivered # firstExceeding
  /\ LCPValue(lastDelivered) > threshold

\* C2: the callback fires during the delivery of the first candidate of the
\* session, in delivery order (also inside one observer batch), whose value
\* exceeds the threshold, and it receives exactly that candidate.
C2_FiresOnFirstExceeding ==
  /\ firstExceeding # Null =>
       \E i \in FiredIn(session) : fired[i].entry = ToLCPEntry(firstExceeding)
  /\ \A i \in FiredIn(session) :
       firstExceeding # Null /\ fired[i].entry = ToLCPEntry(firstExceeding)

\* Two candidates above the threshold were delivered to a push observer, the
\* smaller one first; the callback received the first.
C2_Witness ==
  /\ supportsPO
  /\ session = 1
  /\ observer # 0
  /\ Len(lcpBuffer) = 2
  /\ LCPValue(lcpBuffer[1]) > threshold
  /\ LCPValue(lcpBuffer[2]) > LCPValue(lcpBuffer[1])
  /\ lastDelivered = lcpBuffer[2]
  /\ Len(fired) = 1
  /\ fired[1].entry = ToLCPEntry(lcpBuffer[1])

\* C3: the comparison is strict: no callback invocation carries a value equal to
\* or below the threshold, and a first candidate of value threshold + 1 does
\* invoke it.
C3_StrictThreshold ==
  /\ \A i \in DOMAIN fired : fired[i].entry.value > threshold
  /\ (firstExceeding # Null /\ LCPValue(firstExceeding) = threshold + 1) =>
       \E i \in FiredIn(session) : fired[i].entry.value = threshold + 1

\* A candidate whose value equals the threshold was delivered to a running
\* monitor and nothing fired.
C3_Witness ==
  /\ isObserving
  /\ lastDelivered # Null
  /\ LCPValue(lastDelivered) = threshold
  /\ currentLCP # Null
  /\ currentLCP.value = threshold
  /\ fired = <<>>

\* C4: getCurrentLCP() is the most recently delivered candidate (last-write-wins),
\* and null when no candidate was ever delivered.
C4_CurrentIsLastDelivered ==
  IF lastDelivered = Null
  THEN GetCurrentLCP = Null
  ELSE GetCurrentLCP = ToLCPEntry(lastDelivered)

\* The callback fired for an earlier candidate whose value is larger than the
\* current one's.
C4_Witness ==
  /\ currentLCP # Null
  /\ hasTriggered
  /\ \E i \in DOMAIN fired : fired[i].entry.value > currentLCP.value

\* C5: once stop() has returned, the callback is not invoked again before a later
\* start(): every invocation is made while the monitor is observing.
C5_NoCallbackAfterStop ==
  \A i \in DOMAIN fired : fired[i].observing

\* C6: stop() then start() begins a session with the fired-flag reset: when the
\* callback fired in the previous session, a candidate above the threshold
\* delivered in the new session invokes it again, once.
C6_RestartRearms ==
  (session >= 2 /\ FiredIn(session - 1) # {} /\ firstExceeding # Null) =>
    Cardinality(FiredIn(session)) = 1

\* The callback fired in session 1 and again in session 2.
C6_Witness ==
  /\ session = 2
  /\ FiredIn(1) # {}
  /\ FiredIn(2) # {}

\* C7: start() on a running monitor and stop() on a monitor that is not running
\* change no field of the monitor and create or cancel no observer, timer or
\* listener, and invoke nothing.
C7_RedundantCallsAreNoOps ==
  [][ ((lastCall' = "start" /\ isObserving) \/ (lastCall' = "stop" /\ ~isObserving))
        => UNCHANGED <<monitorFields, platformVars, session, fired>> ]_vars

\* start() was called on a monitor already running its first push session, after
\* a candidate had been delivered.
C7_Witness ==
  /\ lastCall = "start"
  /\ supportsPO
  /\ session = 1
  /\ connected = {1}
  /\ isObserving
  /\ currentLCP # Null

\* C8: with no LCP element, the result is the min(maxResources, n) records of
\* largest duration, in descending duration order, equal durations in buffer
\* order.
C8_TopByDuration ==
  (collected /\ lcpElementArg = Null /\ perfApi = "ok") =>
    LET n == Len(resources)
        k == Len(result)
        Ahead(i, j) == \/ resources[i].duration > resources[j].duration
                       \/ resources[i].duration = resources[j].duration /\ i < j
    IN /\ k = Min(maxResources, n)
       /\ \A i \in 1..k : result[i] \in 1..n
       /\ \A i, j \in 1..k : i < j => Ahead(result[i], result[j])
       /\ \A r \in (1..n) \ Range(result) : \A i \in 1..k : Ahead(result[i], r)

\* Three records, the first the shortest and the other two tied, maxResources 2:
\* the two tied records are returned in buffer order.
C8_Witness ==
  /\ collected
  /\ lcpElementArg = Null
  /\ perfApi = "ok"
  /\ maxResources = 2
  /\ Len(resources) = 3
  /\ resources[1].duration < resources[2].duration
  /\ resources[2].duration = resources[3].duration
  /\ result = <<2, 3>>

\* The URL the LCP element stands for: src of an image or video, else the url(...)
\* of its background image; <<>> when there is none.
ElementUrl(el) ==
  IF el.tagName \in {"IMG", "VIDEO"} THEN el.src
  ELSE IF ~el.styleThrows /\ el.backgroundImage.kind = "url"
       THEN el.backgroundImage.url
       ELSE <<>>

\* The stylesheet records of the buffer, in buffer order.
StylesheetRefs ==
  SelectSeq([i \in 1..Len(resources) |-> i],
            LAMBDA i : resources[i].initiatorType = "link" /\ IncludesCss(resources[i].name))

\* C9: when the LCP element's URL is the name of a buffered record, that record is
\* first, and the stylesheet records follow it directly, as far as maxResources
\* allows, before any duration-ranked record.
C9_LcpResourceThenStylesheets ==
  (/\ collected
   /\ perfApi = "ok"
   /\ lcpElementArg # Null
   /\ ElementUrl(lcpElementArg) # <<>>
   /\ \E i \in DOMAIN resources : resources[i].name = ElementUrl(lcpElementArg)) =>
    /\ Len(result) >= 1
    /\ resources[result[1]].name = ElementUrl(lcpElementArg)
    /\ \A i \in DOMAIN resources :
         resources[i].name = ElementUrl(lcpElementArg) => result[1] <= i
    /\ \A j \in 1..Len(StylesheetRefs) :
         j + 1 <= maxResources => Len(result) >= j + 1 /\ result[j + 1] = StylesheetRefs[j]

\* The LCP resource has the smallest duration of three records and comes first,
\* the stylesheet second, the longest record last.
C9_Witness ==
  /\ collected
  /\ lcpElementArg = HeroImg
  /\ perfApi = "ok"
  /\ maxResources = 3
  /\ Len(resources) = 3
  /\ Len(StylesheetRefs) = 1
  /\ result[1] # StylesheetRefs[1]
  /\ resources[result[1]].name = HeroUrl
  /\ result[2] = StylesheetRefs[1]
  /\ resources[result[3]].duration > resources[result[1]].duration
  /\ resources[result[3]].duration > resources[result[2]].duration

\* C10: collectCriticalResources returns at most maxResources records.
C10_AtMostMaxResources ==
  collected => Len(result) <= maxResources

\* The LCP resource and the stylesheets alone outnumber maxResources, and exactly
\* maxResources records are returned.
C10_Witness ==
  /\ collected
  /\ perfApi = "ok"
  /\ lcpElementArg = HeroImg
  /\ \E i \in DOMAIN resources : resources[i].name = HeroUrl
  /\ Len(StylesheetRefs) >= maxResources
  /\ Len(result) = maxResources

\* C11: the list returned by collectCriticalResources never holds two records of
\* the same URL (name).
C11_NoDuplicateUrls ==
  collected =>
    \A i, j \in DOMAIN result :
      i # j => CollectResourceTiming[result[i]].name # CollectResourceTiming[result[j]].name

\* C12: when the resource-timing buffer cannot be read (the read throws or the
\* Performance API is missing), collectCriticalResources returns the empty list,
\* with or without an LCP element.
C12_FailedReadYieldsEmpty ==
  (collected /\ perfApi # "ok") => result = <<>>

\* The read throws, the buffer holds a record, an LCP element was given, and the
\* result is empty.
C12_Witness ==
  /\ collected
  /\ perfApi = "throws"
  /\ resources # <<>>
  /\ lcpElementArg = HeroImg
  /\ result = <<>>

\* C20: constructing a ConfigManager or an LCPPerformanceTracer with a negative
\* lcpThreshold throws, with a threshold >= 0 (or none given) it succeeds, and no
\* constructed object holds a negative threshold.
C20_NegativeThresholdRejected ==
  constructed # "none" =>
    /\ (constructed = "threw") <=>
         (Given(rawConfig.lcpThreshold) /\ rawConfig.lcpThreshold[1] < 0)
    /\ constructed # "threw" =>
         /\ config.lcpThreshold >= 0
         /\ config.lcpThreshold = OrDefault(rawConfig.lcpThreshold, DEFAULT_LCP_THRESHOLD)

\* A tracer's construction with threshold -1 threw.
C20_Witness ==
  /\ constructed = "threw"
  /\ rawConfig.lcpThreshold = <<-1>>
  /\ config = Null

\* C17: when the sink is unavailable (no global newrelic, or recordCustomEvent is
\* not a function) sendTrace makes no call to the sink and its promise resolves.
C17_UnavailableSinkSendsNothing ==
  (sendTracePromise # "none" /\ newrelic # "available") =>
    (sinkCalls = <<>> /\ sendTracePromise = "resolved")

\* sendTrace returned for a trace of two resources while recordCustomEvent was
\* not a function.
C17_Witness ==
  /\ sendTracePromise = "resolved"
  /\ newrelic = "notFunction"
  /\ Len(traceData.resources) = 2
  /\ sinkCalls = <<>>

\* C18: with N resources and an available sink that does not throw, sendTrace
\* makes exactly N + 1 calls: first LCPPerformanceTrace with resourceCount N,
\* then N LCPResourceTrace events in list order, the i-th (from 0) carrying
\* resourceIndex i and the i-th resource.
C18_MainThenResourcesInOrder ==
  (sendTracePromise # "none" /\ newrelic = "available"
     /\ \A k \in DOMAIN sinkCalls : ~sinkCalls[k].threw) =>
    LET N == Len(traceData.resources)
    IN /\ Len(sinkCalls) = N + 1
       /\ sinkCalls[1].name = "LCPPerformanceTrace"
       /\ sinkCalls[1].data.resourceCount = N
       /\ \A i \in 0..(N - 1) :
            /\ sinkCalls[i + 2].name = "LCPResourceTrace"
            /\ sinkCalls[i + 2].data.resourceIndex = i
            /\ sinkCalls[i + 2].data.resourceName = traceData.resources[i + 1].name
            /\ sinkCalls[i + 2].data.resourceDuration = traceData.resources[i + 1].duration

\* A trace of three resources, two of them different, was sent in full.
C18_Witness ==
  /\ sendTracePromise = "resolved"
  /\ Len(traceData.resources) = 3
  /\ traceData.resources[1] # traceData.resources[2]
  /\ Len(sinkCalls) = 4
  /\ \A k \in DOMAIN sinkCalls : ~sinkCalls[k].threw

\* C19: every LCPResourceTrace event carries the traceId of the main event of its
\* trace.
C19_ResourceEventsShareMainTraceId ==
  \A k, m \in DOMAIN sinkCalls :
    (sinkCalls[k].trace = sinkCalls[m].trace
       /\ sinkCalls[k].name = "LCPPerformanceTrace"
       /\ sinkCalls[m].name = "LCPResourceTrace")
    => sinkCalls[m].data.traceId = sinkCalls[k].data.traceId

\* The calls made to the sink for trace t, in order, in the log calls.
CallsOf(calls, t) == SelectSeq(calls, LAMBDA c : c.trace = t)

\* The traces whose main event was handed to the sink while tracer session s
\* was running.
TracesOfSession(s) ==
  { t \in DOMAIN handled :
      /\ handled[t].tracerSession = s
      /\ \E k \in DOMAIN sinkCalls :
           sinkCalls[k].trace = t /\ sinkCalls[k].name = "LCPPerformanceTrace" }

\* C13: in one tracer session (tracer.start() to tracer.stop()) at most one main
\* event reaches the sink, and it reports the first candidate above the threshold
\* delivered in that session.
C13_OneTracePerTracerSession ==
  \A s \in 1..session :
    /\ Cardinality(TracesOfSession(s)) <= 1
    /\ \A t \in TracesOfSession(s) :
         /\ handled[t].first # Null
         /\ handled[t].entry = ToLCPEntry(handled[t].first)

\* C14: tracer.start() begins monitoring only when the tracer is enabled and the
\* sampling draw is below samplingRate; a disabled tracer and one with
\* samplingRate 0 never run, hold no monitor and send nothing; an enabled tracer
\* with samplingRate 1 passes the gate at every start() made while not running.
C14_StartGatedByEnabledAndSampling ==
  [][ /\ (isRunning' /\ ~isRunning) =>
           (gate'.passed /\ gate'.below /\ config.enabled /\ lcpMonitor' # 0 /\ isObserving')
      /\ (session' # session \/ lcpMonitor' \notin {0, lcpMonitor}) => (isRunning' /\ ~isRunning)
      /\ (gate' # gate /\ ~gate'.running) =>
           /\ gate'.passed = gate'.below
           /\ gate'.passed = isRunning'
           /\ (config.enabled /\ config.samplingRate = RateScale) => gate'.passed
      /\ (~config.enabled \/ config.samplingRate = 0) =>
           (~isRunning' /\ lcpMonitor' = 0 /\ session' = 0 /\ sinkCalls' = <<>>)
    ]_vars

\* A start() of an enabled tracer with samplingRate 1/RateScale drew too high a
\* value: the tracer is not running and holds no monitor.
C14_Witness ==
  /\ gate # Null
  /\ ~gate.running /\ ~gate.below /\ ~gate.passed
  /\ config.enabled /\ config.samplingRate = 1
  /\ ~isRunning /\ lcpMonitor = 0 /\ session = 0

\* C15: when the sink throws while a trace is being sent, the calls already made
\* are never repeated and no further event of that trace is attempted, the
\* promise of handleLCPDetected resolves, and a running tracer and its monitor
\* are running afterwards.
C15_SinkFailureIsDropped ==
  [][ /\ \A k \in DOMAIN sinkCalls : k \in DOMAIN sinkCalls' /\ sinkCalls'[k] = sinkCalls[k]
      /\ \A k \in DOMAIN sinkCalls' : k > Len(sinkCalls) => sinkCalls'[k].trace > Len(handled)
      /\ \A t \in DOMAIN handled' :
           LET cs == CallsOf(sinkCalls', t)
           IN (\E i \in DOMAIN cs : cs[i].threw) =>
                /\ cs[Len(cs)].threw
                /\ \A i, j \in DOMAIN cs : i # j => cs[i] # cs[j]
                /\ Len(cs) <= Len(handled'[t].data.resources) + 1
                /\ handled'[t].promise = "resolved"
                /\ (t > Len(handled) /\ handled'[t].monitor = lcpMonitor') =>
                     (isRunning' /\ isObserving')
    ]_vars

\* The sink threw in the main event of a trace that had one resource to report;
\* nothing else was sent and the tracer and its monitor are running.
C15_Witness ==
  /\ Len(handled) = 1
  /\ Len(handled[1].data.resources) = 1
  /\ Len(sinkCalls) = 1
  /\ sinkCalls[1].threw
  /\ handled[1].promise = "resolved"
  /\ isRunning /\ isObserving /\ lcpMonitor = handled[1].monitor

\* C16: when the callback fires while every timing-buffer read throws and the
\* sink is available, exactly one call is made to the sink for the trace: the
\* main event, with resourceCount 0 and an all-zero navigation snapshot; the
\* promise of handleLCPDetected resolves.
C16_FailedReadsStillSendMainEvent ==
  (perfApi = "throws" /\ newrelic = "available") =>
    \A t \in DOMAIN handled :
      LET cs == CallsOf(sinkCalls, t)
      IN /\ Len(cs) = 1
         /\ cs[1].name = "LCPPerformanceTrace"
         /\ cs[1].data.resourceCount = 0
         /\ cs[1].data.domContentLoaded = 0
         /\ cs[1].data.loadComplete = 0
         /\ cs[1].data.firstContentfulPaint = 0
         /\ handled[t].data.resources = <<>>
         /\ handled[t].data.navigation = DefaultNavigationData
         /\ handled[t].promise = "resolved"

\* The push observer delivered a candidate above the threshold while every read
\* threw, and the main event was accepted by the sink.
C16_Witness ==
  /\ perfApi = "throws"
  /\ resources # <<>>
  /\ timing # Null
  /\ Len(handled) = 1
  /\ Len(sinkCalls) = 1
  /\ ~sinkCalls[1].threw
  /\ sinkCalls[1].data.resourceCount = 0

\* An object was built from rawConfig (the constructor did not throw).
ConfigBuilt == constructed \in {"ConfigManager", "LCPPerformanceTracer"}

\* The value of a range [lo, hi] nearest to v.
Clamp(v, lo, hi) == IF v < lo THEN lo ELSE IF v > hi THEN hi ELSE v

\* C21 as stated: an out-of-range samplingRate or maxResources is clamped to the
\* nearer end of its range (rate to 0 or 1, maxResources to 1 or 100) and an
\* in-range value is kept.
C21_OutOfRangeClamped ==
  ConfigBuilt =>
    /\ Given(rawConfig.samplingRate) =>
         config.samplingRate = Clamp(rawConfig.samplingRate[1], 0, RateScale)
    /\ Given(rawConfig.maxResources) =>
         config.maxResources = Clamp(rawConfig.maxResources[1], 1, 100)

\* C21 amended: an out-of-range samplingRate or maxResources is replaced by its
\* default (rate 1.0, maxResources 10) whichever side of the range it is on, and
\* a warning names it; an in-range value is kept and not warned about.
C21_OutOfRangeReplacedByDefault ==
  ConfigBuilt =>
    /\ Given(rawConfig.samplingRate) =>
         LET r == rawConfig.samplingRate[1]
             warned == \E i \in DOMAIN configWarnings :
                         configWarnings[i] = [invalid |-> "sampling rate", value |-> r]
         IN IF r < 0 \/ r > RateScale
            THEN config.samplingRate = RateScale /\ warned
            ELSE config.samplingRate = r /\ ~warned
    /\ Given(rawConfig.maxResources) =>
         LET m == rawConfig.maxResources[1]
             warned == \E i \in DOMAIN configWarnings :
                         configWarnings[i] = [invalid |-> "maxResources", value |-> m]
         IN IF m < 1 \/ m > 100
            THEN config.maxResources = 10 /\ warned
            ELSE config.maxResources = m /\ ~warned

\* A configuration was built from a rate below 0 and a maxResources above 100.
C21_Witness ==
  /\ ConfigBuilt
  /\ Given(rawConfig.samplingRate) /\ rawConfig.samplingRate[1] < 0
  /\ Given(rawConfig.maxResources) /\ rawConfig.maxResources[1] > 100
  /\ config.samplingRate = RateScale
  /\ config.maxResources = 10

\* The warnings about the sampling rate logged so far.
SamplingRateWarningCount ==
  Cardinality({i \in DOMAIN configWarnings : configWarnings[i].invalid = "sampling rate"})

\* C22: once the constructor ran, a samplingRate outside [0, 1] has been logged by
\* exactly one warning and a rate inside it or absent by none; the configuration
\* built holds the default 1.0 for a rate outside the range or absent.
C22_InvalidRateDefaultsWithOneWarning ==
  constructed # "none" =>
    LET rate == rawConfig.samplingRate
        invalid == Given(rate) /\ (rate[1] < 0 \/ rate[1] > RateScale)
    IN /\ SamplingRateWarningCount = (IF invalid THEN 1 ELSE 0)
       /\ ConfigBuilt /\ (invalid \/ ~Given(rate)) => config.samplingRate = RateScale

\* A configuration was built from a rate above 1: it holds 1.0 and one warning.
C22_Witness ==
  /\ ConfigBuilt
  /\ Given(rawConfig.samplingRate) /\ rawConfig.samplingRate[1] > RateScale
  /\ config.samplingRate = RateScale
  /\ SamplingRateWarningCount = 1

\* The candidate value as C25 states it: render-time when present (non-zero),
\* else start-time, else 0.
RenderTimeFirst(entry) ==
  IF entry.renderTime # 0 THEN entry.renderTime
  ELSE IF entry.startTime # 0 THEN entry.startTime
  ELSE 0

\* C25: the value stored for the candidate last handed to the monitor (the value
\* that was compared with the threshold) is its render-time when present, else
\* its start-time, else 0.
C25_RenderTimePreferred ==
  lastDelivered # Null => currentLCP.value = RenderTimeFirst(lastDelivered)

\* The step is an effective start() call: the monitor was not observing.
StartStep == lastCall' = "start" /\ ~isObserving

\* The push observer of the current session is subscribed.
PushActive == observer = session /\ session \in connected

\* The polling timer of the current session is armed.
PollingActive == fallbackCheckInterval = session /\ session \in intervals

C28_StartBeginsCleanSession ==
  [][(StartStep /\ PushActive') => (GetCurrentLCP' = Null /\ ~hasTriggered')]_vars

\* C27: after stop() no fallback sample runs: while the monitor is stopped, no
\* step other than a start() call modifies the current candidate.
C27_NoSampleAfterStop ==
  [][(session > 0 /\ ~isObserving /\ lastCall' # "start") => currentLCP' = currentLCP]_vars

\* C29: when the settle timeout registered by an earlier session runs, it leaves
\* the polling timer of the current session armed and hands it no candidate.
C29_StaleTimersLeaveLaterSession ==
  [][\A s \in settleTimers \ settleTimers' :
       s < session =>
         /\ intervals' = intervals
         /\ fallbackCheckInterval' = fallbackCheckInterval
         /\ currentLCP' = currentLCP
         /\ fired' = fired]_vars

\* C30: an interval poll whose buffer read throws changes nothing: the monitor
\* stays running, its timer armed, its fields and the callback history as they
\* were; and the tick after it still samples the newest buffered entry and
\* fires the callback when that entry exceeds the threshold.
C30_FailedPollIsHarmless ==
  [][/\ lastCall' = "pollFailed" =>
          UNCHANGED <<monitorFields, connected, observerQueue, intervals, loadListeners,
                      settleTimers, fired>>
     /\ (lastCall = "pollFailed" /\ Len(lcpBuffer) > 0
           /\ \E cb \in CallbackBehaviours : IntervalTick(FALSE, cb))
          => /\ currentLCP' = ToLCPEntry(lcpBuffer[Len(lcpBuffer)])
             /\ (~hasTriggered /\ LCPValue(lcpBuffer[Len(lcpBuffer)]) > threshold)
                  => Len(fired') = Len(fired) + 1]_vars

\* A poll failed on a running monitor that has not fired while an entry above
\* the threshold is buffered: the timer is still armed for the tick that fires.
C30_Witness ==
  /\ lastCall = "pollFailed"
  /\ isObserving /\ ~hasTriggered
  /\ fallbackCheckInterval # 0 /\ fallbackCheckInterval \in intervals
  /\ Len(lcpBuffer) > 0 /\ LCPValue(lcpBuffer[Len(lcpBuffer)]) > threshold

\* The monitor is observing in fallback mode and the settle sample of its own
\* load listener has run.
Settled ==
  /\ isObserving
  /\ session \notin connected
  /\ loadFired
  /\ session \notin loadListeners
  /\ session \notin settleTimers

\* C26: in fallback mode start() samples at once and every tick samples; the load
\* event while observing schedules the session's settle sample; that sample ends
\* the periodic sampling and leaves the monitor running (unless the callback it
\* invoked stopped it); after it no further sample is taken in the session.
C26_FallbackSamplingSchedule ==
  [][/\ (StartStep /\ PollingActive' /\ Len(lcpBuffer) > 0
           /\ \E fail \in ObserverFailures, cb \in CallbackBehaviours : Start(fail, FALSE, cb))
          => lastDelivered' = lcpBuffer[Len(lcpBuffer)]
     /\ (Len(lcpBuffer) > 0 /\ \E cb \in CallbackBehaviours : IntervalTick(FALSE, cb))
          => lastDelivered' = lcpBuffer[Len(lcpBuffer)]
     /\ (~loadFired /\ loadFired' /\ isObserving /\ PollingActive)
          => session \in settleTimers'
     /\ (isObserving /\ session \in settleTimers /\ session \notin settleTimers')
          => /\ fallbackCheckInterval' = 0
             /\ isObserving' \/ Len(fired') > Len(fired)
     /\ (Settled /\ Settled')
          => /\ lastDelivered' = lastDelivered
             /\ currentLCP' = currentLCP
             /\ fired' = fired]_vars

\* The names C23 calls sensitive.
SensitiveNames == {"token", "key", "password", "secret", "auth", "api_key", "apikey"}

\* The tokens of a string that start before character end.
RECURSIVE TokensBefore(_, _)
TokensBefore(str, end) ==
  IF str = <<>> \/ end <= 0 THEN <<>>
  ELSE <<Head(str)>> \o TokensBefore(Tail(str), end - TokenLength(Head(str)))

\* The decoded query parameters readable in a url attribute (for a truncated
\* one, those that begin before the cut).
ReadableParams(u) ==
  LET text == IF Len(u) = 2 /\ u[2] = "..." THEN TokensBefore(u[1].substring, u[1].end)
              ELSE u
  IN IF text = <<>> THEN <<>> ELSE URLSearchParams(Tail(text))

IsSensitiveParam(p) == p.name \in SensitiveNames

IsOtherParam(p) == p.name \notin SensitiveNames

IsPrefix(a, b) == Len(a) <= Len(b) /\ \A i \in DOMAIN a : a[i] = b[i]

\* C23: in every event sent, each sensitive query parameter readable in the url
\* attribute carries the redaction marker instead of its value, and the other
\* parameters are those of the page URL, unchanged and in order (as far as the
\* attribute reaches when it was cut to 200 characters).
C23_SensitiveParamsRedacted ==
  traceData # Null =>
    \A i \in DOMAIN sinkCalls :
      LET sent == ReadableParams(sinkCalls[i].data.url)
          original == ReadableParams(traceData.url)
      IN /\ \A k \in DOMAIN sent :
              IsSensitiveParam(sent[k]) => sent[k].value = "[REDACTED]"
         /\ IsPrefix(SelectSeq(sent, IsOtherParam), SelectSeq(original, IsOtherParam))
         /\ StringLength(traceData.url) <= 200 =>
              SelectSeq(sent, IsOtherParam) = SelectSeq(original, IsOtherParam)

\* Record i goes before record j in the ranking by duration: longer first, equal
\* durations in buffer order.
Ahead(i, j) ==
  \/ resources[i].duration > resources[j].duration
  \/ resources[i].duration = resources[j].duration /\ i < j

\* The result is the step-2 ranking: the min(maxResources, n) records of largest
\* duration, in descending duration order, equal durations in buffer order.
IsTopByDuration ==
  LET n == Len(resources)
      k == Len(result)
  IN /\ k = Min(maxResources, n)
     /\ \A i \in 1..k : result[i] \in 1..n
     /\ \A i, j \in 1..k : i < j => Ahead(result[i], result[j])
     /\ \A r \in (1..n) \ Range(result) : \A i \in 1..k : Ahead(result[i], r)

\* C32: with an LCP element for which no URL resolves (and resolving does not
\* throw), the result is the step-2 ranking, as when no element is given.
C32_NoUrlMeansTopByDuration ==
  (/\ collected
   /\ perfApi = "ok"
   /\ lcpElementArg # Null
   /\ ~lcpElementArg.styleThrows
   /\ ElementUrl(lcpElementArg) = <<>>) => IsTopByDuration

\* C33: when resolving the element's URL throws, collectCriticalResources still
\* returns: the step-2 ranking of the buffered records, or the empty list when
\* the buffer cannot be read either.
C33_ThrowFallsBackToTopByDuration ==
  (collected /\ lcpElementArg # Null /\ lcpElementArg.styleThrows) =>
    IF perfApi = "ok" THEN IsTopByDuration ELSE result = <<>>

\* getComputedStyle threw for the element; a stylesheet of the buffer is left out
\* in favour of a longer record.
C33_Witness ==
  /\ collected
  /\ perfApi = "ok"
  /\ lcpElementArg = DetachedDiv
  /\ Len(StylesheetRefs) = 1
  /\ StylesheetRefs[1] \notin Range(result)
  /\ Len(result) = maxResources

\* The priority records of the result: the first record named by the element's
\* URL, if any, then the stylesheets.
PriorityRefs ==
  LET url == ElementUrl(lcpElementArg)
      matching == { i \in DOMAIN resources : resources[i].name = url }
  IN (IF url # <<>> /\ matching # {}
      THEN << CHOOSE i \in matching : \A j \in matching : i <= j >> ELSE <<>>)
     \o StylesheetRefs

\* C34: with an LCP element, the slots left after the priority records hold the
\* records not yet selected of highest duration, as many as fit, in descending
\* duration order with ties in buffer order; every record left out ranks behind
\* every filler record.
C34_FillerByDuration ==
  (/\ collected
   /\ perfApi = "ok"
   /\ lcpElementArg # Null
   /\ ~lcpElementArg.styleThrows
   /\ Len(PriorityRefs) < maxResources) =>
    LET p == Len(PriorityRefs)
        others == (1..Len(resources)) \ Range(PriorityRefs)
        filler == SubSeq(result, p + 1, Len(result))
    IN /\ Len(result) = p + Min(maxResources - p, Cardinality(others))
       /\ Range(filler) \subseteq others
       /\ \A i, j \in DOMAIN filler : i < j => Ahead(filler[i], filler[j])
       /\ \A r \in others \ Range(filler) : \A i \in DOMAIN filler : Ahead(filler[i], r)

\* The LCP resource comes first, one slot is left for two other records, and the
\* later, longer one fills it.
C34_Witness ==
  /\ collected
  /\ perfApi = "ok"
  /\ lcpElementArg = HeroImg
  /\ maxResources = 2
  /\ Len(resources) = 3
  /\ StylesheetRefs = <<>>
  /\ resources[1].name = HeroUrl
  /\ resources[2].duration < resources[3].duration
  /\ result = <<1, 3>>

\* C39: when the buffer holds at most maxResources records, the result holds each
\* of them exactly once, whatever LCP element is given.
C39_SmallBufferReturnedWhole ==
  (collected /\ perfApi = "ok" /\ Len(resources) <= maxResources) =>
    /\ Len(result) = Len(resources)
    /\ Range(result) = 1..Len(resources)

\* The larger of two numbers.
Max(a, b) == IF a > b THEN a ELSE b

\* C35: a snapshot taken with every read succeeding holds max(0, event end -
\* navigationStart) for domContentLoaded and loadComplete, the start time of the
\* first first-contentful-paint entry (0 without one), and the start time of the
\* last buffered LCP entry (0 without one); no field is negative.
C35_SnapshotFields ==
  (snapshot # Null /\ perfApi = "ok" /\ timing # Null) =>
    LET fcp == { i \in DOMAIN paintEntries : paintEntries[i].name = "first-contentful-paint" }
    IN /\ snapshot.domContentLoaded
            = Max(0, timing.domContentLoadedEventEnd - timing.navigationStart)
       /\ snapshot.loadComplete = Max(0, timing.loadEventEnd - timing.navigationStart)
       /\ IF fcp = {} THEN snapshot.firstContentfulPaint = 0
          ELSE \E i \in fcp : /\ \A j \in fcp : i <= j
                              /\ snapshot.firstContentfulPaint = paintEntries[i].startTime
       /\ snapshot.largestContentfulPaint
            = (IF lcpBuffer = <<>> THEN 0 ELSE lcpBuffer[Len(lcpBuffer)].startTime)
       /\ snapshot.domContentLoaded >= 0
       /\ snapshot.loadComplete >= 0
       /\ snapshot.firstContentfulPaint >= 0
       /\ snapshot.largestContentfulPaint >= 0

\* The load event has not ended (loadEventEnd 0 after navigationStart 1), and the
\* last LCP entry starts earlier than one before it.
C35_Witness ==
  /\ snapshot # Null
  /\ perfApi = "ok"
  /\ timing # Null
  /\ timing.loadEventEnd < timing.navigationStart
  /\ snapshot.loadComplete = 0
  /\ snapshot.domContentLoaded > 0
  /\ Len(lcpBuffer) >= 2
  /\ lcpBuffer[1].startTime > lcpBuffer[Len(lcpBuffer)].startTime
  /\ snapshot.largestContentfulPaint = lcpBuffer[Len(lcpBuffer)].startTime
  /\ snapshot.firstContentfulPaint > 0

\* C36: a snapshot taken while navigation timing is missing or a buffer read
\* throws is returned with all four fields 0.
C36_FailedReadYieldsZeroSnapshot ==
  (snapshot # Null /\ (perfApi # "ok" \/ timing = Null)) =>
    /\ snapshot.domContentLoaded = 0
    /\ snapshot.loadComplete = 0
    /\ snapshot.firstContentfulPaint = 0
    /\ snapshot.largestContentfulPaint = 0

\* The paint read threw after a positive domContentLoaded offset had been
\* computed, with paint and LCP entries buffered: the snapshot is all zero.
C36_Witness ==
  /\ snapshot = DefaultNavigationData
  /\ perfApi = "throws"
  /\ timing # Null
  /\ timing.domContentLoadedEventEnd > timing.navigationStart
  /\ paintEntries # <<>>
  /\ lcpBuffer # <<>>

\* isTracerRunning() is true exactly when the tracer holds a monitor and that
\* monitor is running.
RunningIffMonitorRuns == isRunning <=> (lcpMonitor # 0 /\ isObserving)

\* C38: isTracerRunning() is true exactly when the tracer holds a running
\* monitor; a tracer.stop() that ends a run leaves the tracer without a monitor
\* and that monitor stopped, unsubscribed and without interval; a tracer.start()
\* that begins a run holds a monitor never used before, whose candidate and
\* fired-flag can only come from the immediate sample of its own start().
C38_TracerOwnsItsMonitor ==
  [][/\ RunningIffMonitorRuns /\ RunningIffMonitorRuns'
     /\ (isRunning /\ ~isRunning') =>
          /\ lcpMonitor' = 0
          /\ lcpMonitor \notin connected' \cup intervals'
          /\ lcpMonitor \in DOMAIN detached' => ~detached'[lcpMonitor].isObserving
     /\ (~isRunning /\ isRunning') =>
          /\ lcpMonitor' = session' /\ session' = session + 1
          /\ lcpMonitor' \notin DOMAIN detached'
          /\ IF PushActive' \/ lcpBuffer = <<>>
             THEN currentLCP' = Null /\ ~hasTriggered'
             ELSE /\ currentLCP' \in {Null, ToLCPEntry(lcpBuffer[Len(lcpBuffer)])}
                  /\ hasTriggered' => Len(fired') = Len(fired) + 1]_vars

\* The tracer runs for the second time, on a new monitor without candidate,
\* after its first monitor had been handed one.
C38_Witness ==
  /\ isRunning
  /\ lcpMonitor = 2
  /\ isObserving
  /\ currentLCP = Null
  /\ lastDelivered # Null

\* Some entry of the platform's buffer exceeds the threshold: what an observer,
\* which is handed every buffered entry, fires on.
PushWouldFire == \E i \in DOMAIN lcpBuffer : LCPValue(lcpBuffer[i]) > threshold

\* C31: the fallback reaches the decision of the push strategy, only later: once
\* a poll of a running fallback session has read the buffer, the callback has
\* been invoked in that session exactly when some buffered entry exceeds the
\* threshold, also when a later entry is smaller than an earlier one.
C31_FallbackDecidesAsPush ==
  [][(/\ isObserving
      /\ PollingActive
      /\ \E cb \in CallbackBehaviours : IntervalTick(FALSE, cb))
        => ((FiredIn(session) # {})' <=> PushWouldFire)]_vars

\* C37: in fallback mode the polling of a running monitor ends without stop()
\* once the page has loaded, also when start() came after the load event. The
\* interval is cleared by a settle timeout only, and a settle timeout is set by
\* the load event only, which fires once: when the page has loaded and no settle
\* timeout is pending, nothing but stop() can end the polling any more, so by
\* then it must have ended.
C37_PollingEndsAfterLoad ==
  (isObserving /\ loadFired /\ settleTimers = {}) => ~PollingActive

====
